---------------------------- MODULE Spec2Model ----------------------------
(***************************************************************************)
(* zustorm: form state on top of a zustand store.                          *)
(*                                                                         *)
(* A withForm store holds one FormState {values, errors, touched, dirty}.  *)
(* Every setState goes through the computer middleware, which re-runs the  *)
(* form computation (diff of values -> touched/dirty marks, validation ->  *)
(* errors) and hands ONE merged state to zustand's set, which notifies the *)
(* subscribers.  Scoped stores (getScopedFormApi) and controllers          *)
(* (FormController) read and write the root through a path.                *)
(*                                                                         *)
(* JSON-like data is modelled as a tree of nodes.  The kinds of nodes are  *)
(* "obj", "arr", "undef", "num", "bool" and "list" (the _errors arrays of  *)
(* zod, payload = number of messages).  A key that is present and holds    *)
(* undefined is a node of kind "undef", so {a: undefined} and {} are       *)
(* different trees, as they are for lodash's isEqual.                      *)
(***************************************************************************)
EXTENDS Integers, Sequences, FiniteSets, TLC

(***************************************************************************)
(* Bound of the model.                                                     *)
(***************************************************************************)
\* The number of operations performed on a store after its creation.
MaxCalls == 2

(***************************************************************************)
(* Trees.  A node is [k |-> kind, v |-> payload, c |-> children], where c  *)
(* is a function from the own keys of the node to their nodes.             *)
(***************************************************************************)
NoKeys == <<>>

N(kind, val) == [k |-> kind, v |-> val, c |-> NoKeys]

Undef == N("undef", 0)

EmptyObj == N("obj", 0)

Num(n) == N("num", n)

True == N("bool", 1)

ErrList(n) == N("list", n)

Kind(t) == t.k

\* typeof t === 'object' && t !== null ("box" is the wrapper object of a primitive)
IsObjectLike(t) == t.k \in {"obj", "arr", "box"}

\* `!x` of JavaScript is false for undefined and for the number 0.
Truthy(t) == ~(t.k = "undef" \/ (t.k = "num" /\ t.v = 0))

\* Object.keys(t)
Keys(t) == DOMAIN t.c

\* object[key]
Child(t, key) == IF key \in DOMAIN t.c THEN t.c[key] ELSE Undef

\* object[key] = value
Put(t, key, value) == [t EXCEPT !.c = (key :> value) @@ t.c]

\* {...a, ...b} and Object.assign(a, b) for an object a: the keys of b win.
Spread(a, b) == [a EXCEPT !.c = b.c @@ a.c]

\* lodash isEqual: structural, own keys compared (a key holding undefined counts).
IsEqual(a, b) == a = b

\* The node at the key sequence p, undefined when there is none.
RECURSIVE Sub(_, _)
Sub(t, p) == IF p = <<>> THEN t ELSE Sub(Child(t, Head(p)), Tail(p))

\* The key sequences of the nodes of t, <<>> for t itself.
RECURSIVE Nodes(_)
Nodes(t) == {<<>>} \cup UNION {{<<key>> \o q : q \in Nodes(t.c[key])} : key \in DOMAIN t.c}

IsPrefix(p, r) == Len(r) >= Len(p) /\ SubSeq(r, 1, Len(p)) = p

(***************************************************************************)
(* Paths.  A path is [k |-> "undef" | "str" | "tup", s |-> sequence].  For *)
(* a dot-string, s is the string as a sequence of tokens: keys and "."     *)
(* separators ("a.x" is <<"a", ".", "x">>, '' is <<>>).  For a tuple, s is *)
(* the sequence of segments.                                               *)
(***************************************************************************)
NoPath == [k |-> "undef", s |-> <<>>]

Str(toks) == [k |-> "str", s |-> toks]

Tup(segs) == [k |-> "tup", s |-> segs]

\* A segment of a tuple is a string or a number; the number 0 is written
\* "#0" here, which is not the digit string "0".
Index0 == "#0"

\* Variant: a number segment is not turned into a key.
toKey_Unconverted(seg) == seg

\* lodash toKey: the property key of a segment, String(0) for the number 0.
toKey(seg) == IF seg = Index0 THEN "0" ELSE seg

\* Variant: only undefined counts as no path, the empty string is a key.
Falsy_UndefinedOnly(path) == path.k = "undef"

\* `!path`
Falsy(path) == path.k = "undef" \/ (path.k = "str" /\ path.s = <<>>)

RECURSIVE SplitFrom(_, _)
SplitFrom(s, cur) ==
  IF s = <<>> THEN <<cur>>
  ELSE IF Head(s) = "." THEN <<cur>> \o SplitFrom(Tail(s), "")
  ELSE SplitFrom(Tail(s), Head(s))

\* lodash stringToPath: '' has no segment, otherwise the pieces between dots.
StringToPath(s) == IF s = <<>> THEN <<>> ELSE SplitFrom(s, "")

\* Array.prototype.join('.')
RECURSIVE JoinDots(_)
JoinDots(segs) ==
  IF segs = <<>> THEN <<>>
  ELSE LET tok == IF Head(segs) = "" THEN <<>> ELSE <<Head(segs)>>
       IN  IF Len(segs) = 1 THEN tok ELSE tok \o <<".">> \o JoinDots(Tail(segs))

\* lodash toPath: arrayMap(value, toKey) for an array
ToPath(path) ==
  IF path.k = "tup" THEN [i \in 1..Len(path.s) |-> toKey(path.s[i])] ELSE StringToPath(path.s)

\* lodash castPath, used by get and setWith: an array is taken as it is, a
\* string without separator is one key, another string is split.
CastPath(path) ==
  IF path.k = "tup" THEN path.s
  ELSE IF \A i \in 1..Len(path.s) : path.s[i] # "."
    THEN <<IF path.s = <<>> THEN "" ELSE path.s[1]>>
    ELSE StringToPath(path.s)

RECURSIVE BaseGet(_, _)
BaseGet(t, segs) ==
  IF segs = <<>> THEN t
  ELSE IF Kind(t) = "undef" THEN Undef
  ELSE BaseGet(Child(t, toKey(Head(segs))), Tail(segs))

\* lodash get(object, path): an empty segment list resolves to undefined.
Get(t, path) ==
  LET segs == CastPath(path)
  IN  IF segs = <<>> THEN Undef ELSE BaseGet(t, segs)

\* Variant: no container is made for a missing or primitive node.
ObjectOf_NoContainer(t) == t

\* Variant: a missing container is made as an array.
ObjectOf_ArrayWhenMissing(t) ==
  IF IsObjectLike(t) THEN t
  ELSE IF Kind(t) = "undef" THEN N("arr", 0)
  ELSE N("box", t.v)

\* Object(value), the customizer handed to setWith: an object is kept,
\* undefined becomes {}, a primitive becomes its wrapper object.
ObjectOf(t) ==
  IF IsObjectLike(t) THEN t
  ELSE IF Kind(t) = "undef" THEN EmptyObj
  ELSE N("box", t.v)

RECURSIVE BaseSet(_, _, _)
BaseSet(t, segs, value) ==
  IF Len(segs) = 1 THEN Put(t, toKey(segs[1]), value)
  ELSE Put(t, toKey(Head(segs)),
           BaseSet(ObjectOf(Child(t, toKey(Head(segs)))), Tail(segs), value))

\* lodash setWith(object, path, value, Object)
SetWith(t, path, value) ==
  LET segs == CastPath(path)
  IN  IF ~IsObjectLike(t) \/ segs = <<>> THEN t ELSE BaseSet(t, segs, value)

\* Variant: an empty string is joined like any other fragment.
mergePaths_KeepsEmpty(paths) ==
  LET nonNullPaths == SelectSeq(paths, LAMBDA p : p.k # "undef")
      Step(acc, p) ==
        LET pathString == JoinDots(ToPath(p))
        IN  IF acc # <<>> THEN acc \o <<".">> \o pathString ELSE pathString
      Reduce[i \in 0..Len(nonNullPaths)] ==
        IF i = 0 THEN <<>> ELSE Step(Reduce[i - 1], nonNullPaths[i])
  IN  IF nonNullPaths = <<>> THEN NoPath
      ELSE Str(JoinDots(StringToPath(Reduce[Len(nonNullPaths)])))

mergePaths(paths) ==
  LET nonNullPaths == SelectSeq(paths, LAMBDA p : p.k # "undef")
      Step(acc, p) ==
        IF Falsy(p) THEN acc
        ELSE LET pathString == JoinDots(ToPath(p))
             IN  IF acc # <<>> THEN acc \o <<".">> \o pathString ELSE pathString
      Reduce[i \in 0..Len(nonNullPaths)] ==
        IF i = 0 THEN <<>> ELSE Step(Reduce[i - 1], nonNullPaths[i])
  IN  IF nonNullPaths = <<>> THEN NoPath
      ELSE Str(JoinDots(StringToPath(Reduce[Len(nonNullPaths)])))

getWithOptionalPath(state, path) == IF Falsy(path) THEN state ELSE Get(state, path)

\* Variant: the value is merged into the node the path leads to.
setWithOptionalPath_MergesAtPath(state, path, value) ==
  IF Falsy(path) THEN Spread(state, value)
  ELSE SetWith(state, path,
               IF IsObjectLike(Get(state, path)) /\ IsObjectLike(value)
                 THEN Spread(Get(state, path), value) ELSE value)

setWithOptionalPath(state, path, value) ==
  IF Falsy(path) THEN Spread(state, value) ELSE SetWith(state, path, value)


(***************************************************************************)
(* The validator.  The schema of the modelled form is                      *)
(*   z.object({a: z.object({x: z.number().min(1)}), b: z.number().min(1)}) *)
(* given as a tree whose "num" leaves carry the minimum.                   *)
(***************************************************************************)
Schema ==
  Put(Put(EmptyObj, "a", Put(EmptyObj, "x", Num(1))), "b", Num(1))

\* getSchema of the tests: () => schema
getSchema(state) == Schema

\* The schema node accepts the value node itself: an object for z.object, a
\* number that is at least the minimum for z.number().min().
NodeAccepts(schema, values) ==
  /\ values.k = schema.k
  /\ schema.k = "num" => values.v >= schema.v

\* The paths of the issues of safeParse: zod descends into the fields of an
\* object only when the object itself was accepted.
RECURSIVE Issues(_, _, _)
Issues(schema, values, path) ==
  IF ~NodeAccepts(schema, values) THEN {path}
  ELSE UNION {Issues(schema.c[key], Child(values, key), Append(path, key)) : key \in Keys(schema)}

\* ZodError.format(): {_errors: []} at the root and at every node on the way
\* to an issue, the message pushed at the issue's own node.
RECURSIVE Format(_, _)
Format(issues, path) ==
  LET below == {q \in issues : IsPrefix(path, q) /\ Len(q) > Len(path)}
      keys == {q[Len(path) + 1] : q \in below}
  IN  [k |-> "obj", v |-> 0,
       c |-> [key \in keys \cup {"_errors"} |->
                IF key \in keys THEN Format(issues, Append(path, key))
                ELSE ErrList(IF path \in issues THEN 1 ELSE 0)]]

\* safeParse(values).error?.format()
errorsFormatted(schema, values) ==
  IF Issues(schema, values, <<>>) = {} THEN Undef ELSE Format(Issues(schema, values, <<>>), <<>>)

(***************************************************************************)
(* Change detection and marking.                                           *)
(***************************************************************************)
\* Variant: the keys of the two objects that differ, without descending.
findChangedPaths_TopLevelOnly(oldObj, newObj, currentPath) ==
  IF ~IsObjectLike(oldObj) \/ ~IsObjectLike(newObj) THEN {}
  ELSE {<<key>> : key \in {k \in Keys(oldObj) \cup Keys(newObj) :
                              ~IsEqual(Child(oldObj, k), Child(newObj, k))}}

\* Variant: only the keys of the new object are compared, a key that was
\* deleted is not seen.
findChangedPaths_NewKeysOnly(oldObj, newObj, currentPath) ==
  IF ~IsObjectLike(oldObj) \/ ~IsObjectLike(newObj) THEN {}
  ELSE {<<key>> : key \in {k \in Keys(newObj) :
                              ~IsEqual(Child(oldObj, k), Child(newObj, k))}}

\* The result is the set of the path strings of the array the code returns.
RECURSIVE findChangedPaths(_, _, _)
findChangedPaths(oldObj, newObj, currentPath) ==
  IF IsEqual(oldObj, newObj) THEN {}
  ELSE IF \/ ~IsObjectLike(oldObj)
          \/ ~IsObjectLike(newObj)
          \/ (Kind(oldObj) = "arr") # (Kind(newObj) = "arr")
    THEN IF currentPath # <<>> THEN {currentPath} ELSE {}
  ELSE UNION {
         LET keyPath == IF currentPath # <<>> THEN currentPath \o <<".", key>> ELSE <<key>>
         IN  IF ~IsEqual(Child(oldObj, key), Child(newObj, key))
               THEN findChangedPaths(Child(oldObj, key), Child(newObj, key), keyPath)
               ELSE {}
         : key \in Keys(oldObj) \cup Keys(newObj)}

\* Variant: the flag is set at the path alone, not at its parents.
markPathWithProperty_LeafOnly(target, path, property) ==
  IF ~Truthy(target) \/ path = <<>> THEN target
  ELSE SetWith(target, Str(path \o <<".", property>>), True)

\* Variant: the loop stops before the path itself, only the parents are marked.
markPathWithProperty_ParentsOnly(target, path, property) ==
  IF ~Truthy(target) \/ path = <<>> THEN target
  ELSE LET pathSegments == StringToPath(path)
           Marked[i \in 0..(Len(pathSegments) - 1)] ==
             IF i = 0 THEN target
             ELSE SetWith(Marked[i - 1],
                          Str(JoinDots(SubSeq(pathSegments, 1, i)) \o <<".", property>>),
                          True)
       IN  Marked[Len(pathSegments) - 1]

markPathWithProperty(target, path, property) ==
  IF ~Truthy(target) \/ path = <<>> THEN target
  ELSE LET pathSegments == StringToPath(path)
           Marked[i \in 0..Len(pathSegments)] ==
             IF i = 0 THEN target
             ELSE SetWith(Marked[i - 1],
                          Str(JoinDots(SubSeq(pathSegments, 1, i)) \o <<".", property>>),
                          True)
       IN  Marked[Len(pathSegments)]

RECURSIVE MarkPaths(_, _, _)
MarkPaths(target, paths, property) ==
  IF paths = {} THEN target
  ELSE LET path == CHOOSE x \in paths : TRUE
       IN  MarkPaths(markPathWithProperty(target, path, property), paths \ {path}, property)

markPathAsTouched(target, paths) == MarkPaths(target, paths, "_touched")

markPathAsDirty(target, paths) == MarkPaths(target, paths, "_dirty")

(***************************************************************************)
(* The form computation handed to createComputer by createFormComputer.    *)
(***************************************************************************)
formPath == NoPath

\* `property in object`-free update of a property the recipe mutates in
\* place: a target that is not truthy is left as it is, also left absent.
MutateKey(obj, key, value) == IF Truthy(Child(obj, key)) THEN Put(obj, key, value) ELSE obj

\* Variant: the marking creates the touched and dirty trees it does not find.
createFormComputer_CreatesTrees(state, prevState) ==
  LET schema == getSchema(state)
      form == getWithOptionalPath(state, formPath)
      prevForm == getWithOptionalPath(prevState, formPath)
      currentValues == Child(form, "values")
      previousValues == Child(prevForm, "values")
      changedPaths ==
        IF Truthy(previousValues) /\ ~IsEqual(previousValues, currentValues)
          THEN findChangedPaths(previousValues, currentValues, <<>>)
          ELSE {}
      treeOf(key) == IF Truthy(Child(form, key)) THEN Child(form, key) ELSE EmptyObj
      marked ==
        IF changedPaths = {} THEN form
        ELSE Put(Put(form, "touched", markPathAsTouched(treeOf("touched"), changedPaths)),
                 "dirty", markPathAsDirty(treeOf("dirty"), changedPaths))
  IN  IF ~Truthy(form) THEN state
      ELSE setWithOptionalPath(state, formPath,
                               Put(marked, "errors", errorsFormatted(schema, currentValues)))

\* Variant: a missing form node does not end the recipe, the validation is
\* written at the form path all the same.
createFormComputerAt_NoSkip(path, state, prevState) ==
  LET schema == getSchema(state)
      found == getWithOptionalPath(state, path)
      form == IF Truthy(found) THEN found ELSE EmptyObj
      currentValues == Child(form, "values")
  IN  setWithOptionalPath(state, path,
                          Put(form, "errors", errorsFormatted(schema, currentValues)))

\* Variant: the marking takes every path of the current values for changed,
\* whatever the previous values are.
createFormComputerAt_MarksAlways(path, state, prevState) ==
  LET schema == getSchema(state)
      form == getWithOptionalPath(state, path)
      currentValues == Child(form, "values")
      changedPaths == findChangedPaths(EmptyObj, currentValues, <<>>)
      marked ==
        MutateKey(MutateKey(form, "touched",
                            markPathAsTouched(Child(form, "touched"), changedPaths)),
                  "dirty", markPathAsDirty(Child(form, "dirty"), changedPaths))
  IN  IF ~Truthy(form) THEN state
      ELSE setWithOptionalPath(state, path,
                               Put(marked, "errors", errorsFormatted(schema, currentValues)))

\* The recipe of createFormComputer for the form kept at path.
createFormComputerAt(path, state, prevState) ==
  LET schema == getSchema(state)
      form == getWithOptionalPath(state, path)
      prevForm == getWithOptionalPath(prevState, path)
      currentValues == Child(form, "values")
      previousValues == Child(prevForm, "values")
      changedPaths ==
        IF Truthy(previousValues) /\ ~IsEqual(previousValues, currentValues)
          THEN findChangedPaths(previousValues, currentValues, <<>>)
          ELSE {}
      marked ==
        MutateKey(MutateKey(form, "touched",
                            markPathAsTouched(Child(form, "touched"), changedPaths)),
                  "dirty", markPathAsDirty(Child(form, "dirty"), changedPaths))
  IN  IF ~Truthy(form) THEN state
      ELSE setWithOptionalPath(state, path,
                               Put(marked, "errors", errorsFormatted(schema, currentValues)))

\* The form is the state itself: withForm without a formPath.
createFormComputer(state, prevState) == createFormComputerAt(formPath, state, prevState)


(***************************************************************************)
(* Inputs.                                                                 *)
(***************************************************************************)
\* The leaf values of the inputs: a number the schema rejects and one it
\* accepts (the schema asks for a minimum of 1).
LeafVals == {0, 1}

Obj1(k1, v1) == Put(EmptyObj, k1, v1)

Obj2(k1, v1, k2, v2) == Put(Obj1(k1, v1), k2, v2)

\* Values for the object at "a".
AInputs == {Obj1("x", Num(i)) : i \in LeafVals}

\* Whole values trees: with the object at "a", or with "a" absent.
WholeInputs ==
  {Obj2("a", A, "b", Num(n)) : A \in AInputs, n \in LeafVals}
    \cup {Obj1("b", Num(n)) : n \in LeafVals}

PathA == Str(<<"a">>)

PathAX == Tup(<<"a", "x">>)

PathB == Str(<<"b">>)

\* The paths scoped stores and controllers are created with.
ScopedPaths == {PathA, PathAX, PathB}

InputsAt(path) == IF path = PathA THEN AInputs ELSE {Num(i) : i \in LeafVals}

FormKeys == {"values", "errors", "touched", "dirty"}

\* The paths of the stores made by getScopedApi.
ApiPaths == {Str(<<"values">>), Str(<<"values", ".", "a">>), Str(<<"touched">>)}

(***************************************************************************)
(* State.                                                                  *)
(*   state       the state held by the zustand store                       *)
(*   initial     the state the store was created with (getInitialState)    *)
(*   proxyState  the computer's proxyState, the input of its last compute. *)
(*               isChanged reads its own keys and compares the value of a  *)
(*               key by identity only, so an object under a key is kept as *)
(*               {} and its identity is kept in same                       *)
(*   same        the top-level keys k for which state[k] and proxyState[k] *)
(*               are one and the same object                               *)
(*   prev        the state before the last operation (the previousState    *)
(*               zustand hands to listeners)                               *)
(*   op          the last operation: name, path and argument               *)
(*   fired       the last operation notified the store's listeners         *)
(*   ran         the last operation ran the compute function               *)
(*   heard       the scoped paths whose subscribe listener was invoked by  *)
(*               the last operation (stores of getScopedFormApi)           *)
(*   heardApi    the same for the stores of getScopedApi                   *)
(*   view        per scoped path, the scoped state its subscribers read    *)
(*               last (the projections of a FormController)                *)
(*   calls       the number of operations performed so far                 *)
(*   delivered   the states handed to the listeners of the root store by   *)
(*               the last operation, in order                              *)
(*   threw       the last operation ended with an exception                *)
(***************************************************************************)
VARIABLES state, initial, proxyState, same, prev, op, fired, ran, heard, heardApi, view, calls,
          delivered, threw

vars == <<state, initial, proxyState, same, prev, op, fired, ran, heard, heardApi, view, calls,
          delivered, threw>>

(***************************************************************************)
(* Scoped form stores.                                                     *)
(***************************************************************************)
\* Variant: the touched slice is read from the dirty tree.
getScopedFormState_TouchedFromDirty(st, path) ==
  LET scopedState == Get(Child(st, "values"), path)
      scopedErrors == Get(Child(st, "errors"), path)
      scopedDirty == Get(Child(st, "dirty"), path)
      scopedTouched == Get(Child(st, "dirty"), path)
  IN  Put(Put(Put(Put(EmptyObj, "values", scopedState), "errors", scopedErrors),
              "dirty", scopedDirty), "touched", scopedTouched)

\* Variant: only the first segment of the path is resolved.
getScopedFormState_FirstSegment(st, path) ==
  LET first == Tup(<<Head(ToPath(path))>>)
  IN  Put(Put(Put(Put(EmptyObj, "values", Get(Child(st, "values"), first)),
                  "errors", Get(Child(st, "errors"), first)),
              "dirty", Get(Child(st, "dirty"), first)),
          "touched", Get(Child(st, "touched"), first))

getScopedFormState(st, path) ==
  LET scopedState == Get(Child(st, "values"), path)
      scopedErrors == Get(Child(st, "errors"), path)
      scopedDirty == Get(Child(st, "dirty"), path)
      scopedTouched == Get(Child(st, "touched"), path)
  IN  Put(Put(Put(Put(EmptyObj, "values", scopedState), "errors", scopedErrors),
              "dirty", scopedDirty), "touched", scopedTouched)

\* getScopedFormApi(store, path).getState()
ScopedGetState(path) == getScopedFormState(state, path)

\* Variant: the initial state is read from the state the store holds now.
ScopedGetInitialState_Current(path) == getScopedFormState(state, path)

\* getScopedFormApi(store, path).getInitialState()
ScopedGetInitialState(path) == getScopedFormState(initial, path)

\* getScopedApi(store, path).getInitialState()
ApiGetInitialState(path) == Get(initial, path)

\* Variant: the partial is not merged over the current scoped state.
ScopedNewState_PartialOnly(st, path, partialState) == Spread(EmptyObj, partialState)

\* The recipe of getScopedFormApi(store, path).setState: the root state with
\* the four trees written at the path.  partialState is the partial, or the
\* result of the updater applied to the scoped state.
ScopedNewState(st, path, partialState) ==
  Spread(getScopedFormState(st, path), partialState)

\* Variant: the values are written at the root of the values tree.
ScopedWrite_ValuesAtRoot(st, path, partialState) ==
  LET newState == ScopedNewState(st, path, partialState)
      d1 == setWithOptionalPath(st, Str(<<"values">>), Child(newState, "values"))
      d2 == setWithOptionalPath(d1, mergePaths(<<Str(<<"errors">>), path>>),
                                Child(newState, "errors"))
      d3 == setWithOptionalPath(d2, mergePaths(<<Str(<<"dirty">>), path>>),
                                Child(newState, "dirty"))
  IN  setWithOptionalPath(d3, mergePaths(<<Str(<<"touched">>), path>>),
                          Child(newState, "touched"))

ScopedWrite(st, path, partialState) ==
  LET newState == ScopedNewState(st, path, partialState)
      d1 == setWithOptionalPath(st, mergePaths(<<Str(<<"values">>), path>>),
                                Child(newState, "values"))
      d2 == setWithOptionalPath(d1, mergePaths(<<Str(<<"errors">>), path>>),
                                Child(newState, "errors"))
      d3 == setWithOptionalPath(d2, mergePaths(<<Str(<<"dirty">>), path>>),
                                Child(newState, "dirty"))
  IN  setWithOptionalPath(d3, mergePaths(<<Str(<<"touched">>), path>>),
                          Child(newState, "touched"))

\* Variant: the subscription compares the scoped values only.
ScopedListenerInvoked_ValuesOnly(st, prevSt, path) ==
  ~IsEqual(Get(Child(st, "values"), path), Get(Child(prevSt, "values"), path))

\* getScopedFormApi(store, path).subscribe: the listener is invoked.
ScopedListenerInvoked(st, prevSt, path) ==
  ~IsEqual(getScopedFormState(st, path), getScopedFormState(prevSt, path))

\* getScopedApi(store, path).subscribe: the listener is invoked.
ApiListenerInvoked(st, prevSt, path) == ~IsEqual(Get(st, path), Get(prevSt, path))

(***************************************************************************)
(* The computer middleware and zustand's set.                              *)
(***************************************************************************)
\* The keys the form computation reads on the proxy: values, touched, dirty
\* and, through the spread of the form, every own key.
UsedKeys(proxied) == {"values", "touched", "dirty"} \cup Keys(proxied)

\* proxy-compare isChanged(proxyState, merged, affected, cache, Object.is).
\* The values of the top-level keys are not tracked (markToTrack(value,
\* false)): an object is unchanged only if it is the same object, everything
\* else is compared with Object.is.  mod is the set of keys to which the
\* caller's partial gives a new object.
\* used are the keys whose value the last compute read, ownKeys tells that
\* it enumerated the keys of the state.
isChangedFor(proxied, merged, mod, used, ownKeys) ==
  \/ ownKeys /\ Keys(proxied) # Keys(merged)
  \/ \E key \in used :
       IF IsObjectLike(Child(proxied, key)) /\ IsObjectLike(Child(merged, key))
         THEN ~(key \in same /\ key \notin mod)
         ELSE IsObjectLike(Child(proxied, key)) \/ Child(proxied, key) # Child(merged, key)

\* isChanged for the form computation.
isChanged(proxied, merged, mod) ==
  isChangedFor(proxied, merged, mod, UsedKeys(proxied), TRUE)

\* The top-level objects of the compute input, known by identity only.
ByIdentity(merged) ==
  [merged EXCEPT !.c = [key \in DOMAIN merged.c |->
                          IF IsObjectLike(merged.c[key]) THEN EmptyObj ELSE merged.c[key]]]

\* The keys of the computed state that hold the object the compute input
\* held: the computation builds a new errors object with every format().
KeptKeys(computed, merged) ==
  {key \in Keys(computed) :
     /\ Child(computed, key) = Child(merged, key)
     /\ key = "errors" => ~IsObjectLike(Child(computed, key))}

\* Variant: the listeners are notified after the write of values and again
\* after the write of the other trees.
Notify_PerWrite(newState, isFired) ==
  /\ fired' = isFired
  /\ delivered' = IF isFired
                    THEN <<Put(state, "values", Child(newState, "values")), newState>>
                    ELSE <<>>
  /\ heard' = {path \in ScopedPaths : isFired /\ ScopedListenerInvoked(newState, state, path)}
  /\ heardApi' = {path \in ApiPaths : isFired /\ ApiListenerInvoked(newState, state, path)}
  /\ view' = [path \in ScopedPaths |->
                IF isFired /\ ScopedListenerInvoked(newState, state, path)
                  THEN getScopedFormState(newState, path)
                  ELSE view[path]]

\* Variant: every scoped listener is invoked on every root notification.
Notify_WithoutComparison(newState, isFired) ==
  /\ fired' = isFired
  /\ delivered' = IF isFired THEN <<newState>> ELSE <<>>
  /\ heard' = {path \in ScopedPaths : isFired}
  /\ heardApi' = {path \in ApiPaths : isFired}
  /\ view' = [path \in ScopedPaths |->
                IF isFired /\ ScopedListenerInvoked(newState, state, path)
                  THEN getScopedFormState(newState, path)
                  ELSE view[path]]

\* Listeners of the root store and of the scoped stores run after set.
Notify(newState, isFired) ==
  /\ fired' = isFired
  /\ delivered' = IF isFired THEN <<newState>> ELSE <<>>
  /\ heard' = {path \in ScopedPaths : isFired /\ ScopedListenerInvoked(newState, state, path)}
  /\ heardApi' = {path \in ApiPaths : isFired /\ ApiListenerInvoked(newState, state, path)}
  /\ view' = [path \in ScopedPaths |->
                IF isFired /\ ScopedListenerInvoked(newState, state, path)
                  THEN getScopedFormState(newState, path)
                  ELSE view[path]]

\* runCompute(merged) of the middleware that hands compute two arguments:
\* the merged state and the state the store holds before the set.
runCompute(merged) == createFormComputer(merged, state)

\* Variant: the computed keys are left out of what is set.
WithComputed_PartialOnly(nextPartial, computed) == nextPartial

\* const withComputed = { ...nextPartial, ...computed }
WithComputed(nextPartial, computed) == Spread(nextPartial, computed)

\* Variant: a write whose values the validator rejects is thrown away.
setWithComputed_RejectsInvalid(nextPartial, mod, isState) ==
  LET merged == Spread(state, nextPartial)
      touched == isChanged(proxyState, merged, mod)
      computed == runCompute(merged)
      withComputed == WithComputed(nextPartial, computed)
      rejected == touched /\ Child(computed, "errors") # Undef
  IN  /\ calls < MaxCalls
      /\ initial' = initial
      /\ calls' = calls + 1
      /\ prev' = state
      /\ ran' = touched
      /\ threw' = rejected
      /\ IF rejected
           THEN /\ proxyState' = proxyState
                /\ state' = state
                /\ same' = same
                /\ Notify(state, FALSE)
           ELSE IF touched
           THEN /\ proxyState' = ByIdentity(merged)
                /\ state' = Spread(state, withComputed)
                /\ same' = KeptKeys(computed, merged)
                /\ Notify(Spread(state, withComputed), TRUE)
           ELSE /\ proxyState' = proxyState
                /\ state' = Spread(state, nextPartial)
                /\ same' = IF isState THEN same ELSE Keys(Spread(state, nextPartial))
                /\ Notify(Spread(state, nextPartial), ~isState)

\* setWithComputed(partial): nextPartial is the partial, or the result of the
\* updater; isState tells that the updater returned the state object itself
\* (a produce whose recipe changed nothing).
setWithComputed(nextPartial, mod, isState) ==
  LET merged == Spread(state, nextPartial)
      touched == isChanged(proxyState, merged, mod)
      computed == runCompute(merged)
      withComputed == WithComputed(nextPartial, computed)
  IN  /\ calls < MaxCalls
      /\ initial' = initial
      /\ calls' = calls + 1
      /\ prev' = state
      /\ ran' = touched
      /\ threw' = FALSE
      /\ IF touched
           THEN /\ proxyState' = ByIdentity(merged)
                /\ state' = Spread(state, withComputed)
                /\ same' = KeptKeys(computed, merged)
                /\ Notify(Spread(state, withComputed), TRUE)
           ELSE /\ proxyState' = proxyState
                /\ state' = Spread(state, nextPartial)
                /\ same' = IF isState THEN same ELSE Keys(Spread(state, nextPartial))
                /\ Notify(Spread(state, nextPartial), ~isState)

\* The keys under which a produce recipe assigned: the trees differ, or the
\* caller supplied a new object for the key.
ModifiedKeys(draft, fresh) ==
  {key \in Keys(draft) \cup Keys(state) : Child(draft, key) # Child(state, key)} \cup fresh

FreshKeys(partialState, keys) == {key \in keys : IsObjectLike(Child(partialState, key))}

Op(name, path, arg) == [name |-> name, path |-> path, arg |-> arg]


(***************************************************************************)
(* Inputs of the operations.                                               *)
(***************************************************************************)
TouchedFlag == Obj1("_touched", True)

\* touched: {a: {x: {_touched: true}}}
TouchedTree == Obj1("a", Obj1("x", TouchedFlag))

ResetMeta == Put(Obj2("errors", Undef, "touched", Undef), "dirty", Undef)

\* The partials of a root setState: new values, a reset to the values the
\* store was created with, a reset of the shadow trees, a touched tree.
RootPartials ==
  {Obj1("values", V) : V \in WholeInputs}
    \cup {Put(ResetMeta, "values", Child(initial, "values")),
          ResetMeta, Obj1("touched", TouchedTree)}

ScopedPartials(path) ==
  {Obj1("values", x) : x \in InputsAt(path)} \cup {Obj1("touched", TouchedFlag)}

\* A controller without a name is bound to the store itself.
ControllerNames == ScopedPaths \cup {NoPath}


(***************************************************************************)
(* Initial state: createStore(withForm(() => getDefaultForm(values))).     *)
(***************************************************************************)
\* Variant: the default form carries an empty touched tree.
getDefaultForm_WithTouched(values) == Obj2("values", values, "touched", EmptyObj)

getDefaultForm(values) == Obj1("values", values)

Init ==
  \E values \in WholeInputs :
    LET initialState == getDefaultForm(values)
        initialComputed == createFormComputer(initialState, Undef)
    IN  /\ state = Spread(initialState, initialComputed)
        /\ initial = Spread(initialState, initialComputed)
        /\ proxyState = ByIdentity(initialState)
        /\ same = KeptKeys(initialComputed, initialState)
        /\ prev = Spread(initialState, initialComputed)
        /\ calls = 0
        /\ op = Op("create", NoPath, values)
        /\ fired = FALSE
        /\ ran = TRUE
        /\ heard = {}
        /\ heardApi = {}
        /\ delivered = <<>>
        /\ threw = FALSE
        /\ view = [path \in ScopedPaths |->
                     getScopedFormState(Spread(initialState, initialComputed), path)]

(***************************************************************************)
(* Operations.                                                             *)
(***************************************************************************)
\* store.setState(partial) with an object, or with an updater that returns
\* a new object ({...state, values: ...}).
RootSetState(partial) ==
  /\ setWithComputed(partial, FreshKeys(partial, Keys(partial)), FALSE)
  /\ op' = Op("rootSetState", NoPath, partial)

\* getScopedFormApi(store, path).setState(partial)
ScopedSetState(path, partial) ==
  LET draft == ScopedWrite(state, path, partial)
      mod == ModifiedKeys(draft, FreshKeys(partial, Keys(partial)))
  IN  /\ setWithComputed(draft, mod, mod = {})
      /\ op' = Op("scopedSetState", path, partial)

\* Variant: the updater of a controller is given the state the component
\* rendered last.
ControllerState_RenderTime(name) == IF Falsy(name) THEN state ELSE view[name]

\* The state the updater of a controller is given: that of the scoped store
\* of the name, or of the root store when there is no name.
ControllerState(name) == IF Falsy(name) THEN state ELSE getScopedFormState(state, name)

\* scopedStore.setState(updater) of a controller; written is what the
\* updater's produce makes of the state it is given.
ControllerSetState(name, written, fresh) ==
  LET draft == IF Falsy(name) THEN written ELSE ScopedWrite(state, name, written)
      mod == ModifiedKeys(draft, fresh)
  IN  setWithComputed(draft, mod, mod = {})

\* FormController.onChange(value)
OnChange(name, value) ==
  /\ ControllerSetState(name,
                        setWithOptionalPath(ControllerState(name), Str(<<"values">>), value),
                        FreshKeys(Obj1("values", value), {"values"}))
  /\ op' = Op("onChange", name, value)

\* Variant: the blur writes true at touched, not at touched._touched.
OnBlur_FlagAtTouched(name) ==
  /\ ControllerSetState(name,
                        setWithOptionalPath(ControllerState(name), Str(<<"touched">>), True),
                        {})
  /\ op' = Op("onBlur", name, Undef)

\* FormController.onBlur()
OnBlur(name) ==
  /\ ControllerSetState(name,
                        setWithOptionalPath(ControllerState(name),
                                            Str(<<"touched", ".", "_touched">>), True),
                        {})
  /\ op' = Op("onBlur", name, Undef)

\* FormController.onFormChange(form): always on the root store.
OnFormChange(form) ==
  /\ ControllerSetState(NoPath,
                        setWithOptionalPath(state, Str(<<"values">>), form),
                        FreshKeys(Obj1("values", form), {"values"}))
  /\ op' = Op("onFormChange", NoPath, form)

Next ==
  \/ \E partial \in RootPartials : RootSetState(partial)
  \/ \E path \in ScopedPaths : \E partial \in ScopedPartials(path) : ScopedSetState(path, partial)
  \/ \E name \in ScopedPaths : \E value \in InputsAt(name) : OnChange(name, value)
  \/ \E name \in ControllerNames : OnBlur(name)
  \/ \E form \in WholeInputs : OnFormChange(form)

Spec == Init /\ [][Next]_vars

(***************************************************************************)
(* A form store whose values hold an array at "a" or an object at "a",     *)
(* with scoped stores and controllers created with the forms of a path:    *)
(* a tuple with a number index, a tuple with a digit string, a dot-string. *)
(* A controller at "a" can replace the array by one without elements.      *)
(***************************************************************************)
IndexForms == {Tup(<<"a", Index0>>), Tup(<<"a", "0">>), Str(<<"a", ".", "0">>)}

KeyForms == {PathAX, Str(<<"a", ".", "x">>)}

FormPaths == IndexForms \cup KeyForms

\* values: {a: [i], b: 1} and {a: {x: 0}, b: 1}
FormsInputs ==
  {Obj2("a", Put(N("arr", 0), "0", Num(i)), "b", Num(1)) : i \in LeafVals}
    \cup {Obj2("a", Obj1("x", Num(0)), "b", Num(1))}

InitForms ==
  \E values \in FormsInputs :
    LET initialState == getDefaultForm(values)
        initialComputed == createFormComputer(initialState, Undef)
    IN  /\ state = Spread(initialState, initialComputed)
        /\ initial = Spread(initialState, initialComputed)
        /\ proxyState = ByIdentity(initialState)
        /\ same = KeptKeys(initialComputed, initialState)
        /\ prev = Spread(initialState, initialComputed)
        /\ calls = 0
        /\ op = Op("create", NoPath, values)
        /\ fired = FALSE
        /\ ran = TRUE
        /\ heard = {}
        /\ heardApi = {}
        /\ delivered = <<>>
        /\ threw = FALSE
        /\ view = [path \in ScopedPaths |->
                     getScopedFormState(Spread(initialState, initialComputed), path)]

NextForms ==
  \/ \E path \in FormPaths : \E partial \in ScopedPartials(path) : ScopedSetState(path, partial)
  \/ \E name \in FormPaths : \E value \in InputsAt(name) : OnChange(name, value)
  \/ \E name \in FormPaths : OnBlur(name)
  \/ OnChange(PathA, N("arr", 0))

SpecForms == InitForms /\ [][NextForms]_vars

(***************************************************************************)
(* A createComputer store with a compute function of its own, as in the    *)
(* tests of the middleware: the state is {count, other, data: {n},         *)
(* doubled}, compute reads count and data and derives doubled, and throws  *)
(* for a negative count.  The variables of the scoped stores are not used. *)
(***************************************************************************)
Counts == {0 - 1, 0, 1}

ComputerState(count, other, n, doubled) ==
  Put(Put(Obj2("count", Num(count), "other", Num(other)), "data", Obj1("n", Num(n))),
      "doubled", Num(doubled))

\* if (state.count < 0) throw new Error(...)
Throws(st) == Child(st, "count").v < 0

\* return { doubled: state.count * 2 + state.data.n }
compute(st) == Obj1("doubled", Num(Child(st, "count").v * 2 + Child(Child(st, "data"), "n").v))

\* The keys compute read on the proxy (affected): count, and data unless it
\* threw before it got there.
AffectedKeys(proxied) == IF Throws(proxied) THEN {"count"} ELSE {"count", "data"}

DerivedKeys == {"doubled"}

OpRead(name, arg, read) == [name |-> name, path |-> NoPath, arg |-> arg, read |-> read]

InitComputer ==
  \E count \in Counts \ {0 - 1}, other \in LeafVals, n \in LeafVals :
    LET initialState == ComputerState(count, other, n, 0)
        initialComputed == compute(initialState)
    IN  /\ state = Spread(initialState, initialComputed)
        /\ initial = Spread(initialState, initialComputed)
        /\ proxyState = ByIdentity(initialState)
        /\ same = Keys(initialState)
        /\ prev = Spread(initialState, initialComputed)
        /\ calls = 0
        /\ op = OpRead("create", initialState, {})
        /\ fired = FALSE
        /\ ran = TRUE
        /\ heard = {}
        /\ heardApi = {}
        /\ delivered = <<>>
        /\ threw = FALSE
        /\ view = [path \in ScopedPaths |-> Undef]

\* setWithComputed(partial) with the one-argument compute; an exception of
\* compute leaves runCompute after proxyState was assigned and before set.
ComputerSetWithComputed(nextPartial, mod) ==
  LET merged == Spread(state, nextPartial)
      touched == isChangedFor(proxyState, merged, mod, AffectedKeys(proxyState), FALSE)
      withComputed == WithComputed(nextPartial, compute(merged))
  IN  /\ calls < MaxCalls
      /\ initial' = initial
      /\ calls' = calls + 1
      /\ prev' = state
      /\ ran' = touched
      /\ IF touched /\ Throws(merged)
           THEN /\ proxyState' = ByIdentity(merged)
                /\ same' = Keys(merged) \ mod
                /\ state' = state
                /\ threw' = TRUE
                /\ Notify(state, FALSE)
           ELSE IF touched
           THEN /\ proxyState' = ByIdentity(merged)
                /\ same' = Keys(merged)
                /\ state' = Spread(state, withComputed)
                /\ threw' = FALSE
                /\ Notify(Spread(state, withComputed), TRUE)
           ELSE /\ proxyState' = proxyState
                /\ same' = same \ mod
                /\ state' = Spread(state, nextPartial)
                /\ threw' = FALSE
                /\ Notify(Spread(state, nextPartial), TRUE)

\* The partials of the tests: one key, the same values again, a new data
\* object, a derived key.
ComputerPartials ==
  {Obj1("count", Num(c)) : c \in Counts}
    \cup {Obj1("other", Num(o)) : o \in LeafVals}
    \cup {Obj1("data", Obj1("n", Num(n))) : n \in LeafVals}
    \cup {Obj2("count", Child(state, "count"), "other", Child(state, "other")),
          Obj1("doubled", Num(0))}

\* store.setState(partial): an object of the partial is a new object.
ComputerSetState(partial) ==
  /\ ComputerSetWithComputed(partial, FreshKeys(partial, Keys(partial)))
  /\ op' = OpRead("setState", partial, AffectedKeys(proxyState))

\* store.setState({ data: store.getState().data }): the same object.
ComputerSetSameData ==
  /\ ComputerSetWithComputed(Obj1("data", Child(state, "data")), {})
  /\ op' = OpRead("setSameData", Obj1("data", Child(state, "data")), AffectedKeys(proxyState))

\* store.setState((state) => ({ count: state.count + 1 }))
ComputerUpdate ==
  /\ Child(state, "count").v + 1 \in Counts
  /\ ComputerSetWithComputed(Obj1("count", Num(Child(state, "count").v + 1)), {})
  /\ op' = OpRead("update", Obj1("count", Num(Child(state, "count").v + 1)),
                  AffectedKeys(proxyState))

NextComputer ==
  \/ \E partial \in ComputerPartials : ComputerSetState(partial)
  \/ ComputerSetSameData
  \/ ComputerUpdate

SpecComputer == InitComputer /\ [][NextComputer]_vars

(***************************************************************************)
(* A store without withForm: createStore(() => ({values, errors, ...})).   *)
(* No compute runs; the scoped setState is the only writer.                *)
(***************************************************************************)
DirtyFlag == Obj1("_dirty", True)

\* The states the creator returns: values with errors undefined, or all
\* four trees.
PlainStates ==
  {Put(Obj1("values", V), "errors", Undef) : V \in WholeInputs}
    \cup {Put(Put(Put(Obj1("values", V), "errors", errorsFormatted(Schema, V)),
                  "touched", TouchedTree),
              "dirty", Obj1("b", DirtyFlag)) : V \in WholeInputs}

PlainPartials(path) ==
  ScopedPartials(path) \cup {Obj1("dirty", DirtyFlag), Obj1("errors", Undef)}

InitPlain ==
  \E initialState \in PlainStates :
    /\ state = initialState
    /\ initial = initialState
    /\ proxyState = Undef
    /\ same = {}
    /\ prev = initialState
    /\ calls = 0
    /\ op = Op("createPlain", NoPath, initialState)
    /\ fired = FALSE
    /\ ran = FALSE
    /\ heard = {}
    /\ heardApi = {}
    /\ delivered = <<>>
    /\ threw = FALSE
    /\ view = [path \in ScopedPaths |-> getScopedFormState(initialState, path)]

\* getScopedFormApi(store, path).setState(partial) on the plain store: the
\* setState of zustand merges what the updater returns into the state and
\* notifies unless the updater returned the state itself.
PlainScopedSetState(path, partial) ==
  LET draft == ScopedWrite(state, path, partial)
      mod == ModifiedKeys(draft, FreshKeys(partial, Keys(partial)))
  IN  /\ calls < MaxCalls
      /\ calls' = calls + 1
      /\ prev' = state
      /\ state' = Spread(state, draft)
      /\ Notify(Spread(state, draft), mod # {})
      /\ op' = Op("plainScopedSetState", path, partial)
      /\ ran' = FALSE
      /\ threw' = FALSE
      /\ UNCHANGED <<initial, proxyState, same>>

\* isIndex(key) of lodash, for the index the model has.
IsIndex(seg) == toKey(seg) = "0"

\* lodash set(object, path, value): a node on the way that is not an object
\* is replaced by [] when the next key is an index and by {} otherwise.
RECURSIVE BaseSetPlain(_, _, _)
BaseSetPlain(t, segs, value) ==
  IF Len(segs) = 1 THEN Put(t, toKey(segs[1]), value)
  ELSE LET objValue == Child(t, toKey(Head(segs)))
           newValue == IF IsObjectLike(objValue) THEN objValue
                       ELSE IF IsIndex(segs[2]) THEN N("arr", 0) ELSE EmptyObj
       IN  Put(t, toKey(Head(segs)), BaseSetPlain(newValue, Tail(segs), value))

LodashSet(t, path, value) ==
  LET segs == CastPath(path)
  IN  IF ~IsObjectLike(t) \/ segs = <<>> THEN t ELSE BaseSetPlain(t, segs, value)

\* Variant: the slice is replaced by the partial, not merged with it.
ApiWrite_Replace(st, path, partial) == LodashSet(st, path, partial)

\* The recipe of getScopedApi(store, path).setState:
\* set(draft, path, {...get(draft, path), ...partial})
ApiWrite(st, path, partial) ==
  LodashSet(st, path, [EmptyObj EXCEPT !.c = partial.c @@ Get(st, path).c])

\* The partials given to the stores of getScopedApi.
ApiPartials(path) ==
  IF path = Str(<<"values">>) THEN {Obj1("b", Num(n)) : n \in LeafVals}
  ELSE IF path = Str(<<"values", ".", "a">>) THEN AInputs
  ELSE {Obj1("b", TouchedFlag), TouchedTree}

\* getScopedApi(store, path).setState(partial) on the plain store: the
\* recipe assigns a new object at the path, so produce returns a new root
\* and zustand notifies its listeners once.
PlainApiSetState(path, partial) ==
  LET draft == ApiWrite(state, path, partial)
  IN  /\ calls < MaxCalls
      /\ calls' = calls + 1
      /\ prev' = state
      /\ state' = Spread(state, draft)
      /\ Notify(Spread(state, draft), TRUE)
      /\ op' = Op("plainApiSetState", path, partial)
      /\ ran' = FALSE
      /\ threw' = FALSE
      /\ UNCHANGED <<initial, proxyState, same>>

NextPlain ==
  \/ \E path \in ScopedPaths : \E partial \in PlainPartials(path) :
       PlainScopedSetState(path, partial)
  \/ \E path \in ApiPaths : \E partial \in ApiPartials(path) : PlainApiSetState(path, partial)

SpecPlain == InitPlain /\ [][NextPlain]_vars

(***************************************************************************)
(* The path helpers on their own: an object, and setWithOptionalPath       *)
(* applied to it with a path and a value.                                  *)
(***************************************************************************)
\* The objects written into: values trees, {} and {a: 0}, where the path
\* a.x leads through a number.
HelperTrees == WholeInputs \cup {EmptyObj, Obj1("a", Num(0))}

\* path: string | undefined
HelperPaths == {NoPath, Str(<<>>), PathA, PathB, Str(<<"a", ".", "x">>)}

HelperValues == {Undef, EmptyObj, Obj1("b", Num(1))} \cup AInputs \cup {Num(i) : i \in LeafVals}

InitHelpers ==
  \E tree \in HelperTrees :
    /\ state = tree
    /\ initial = tree
    /\ proxyState = Undef
    /\ same = {}
    /\ prev = tree
    /\ calls = 0
    /\ op = Op("object", NoPath, tree)
    /\ fired = FALSE
    /\ ran = FALSE
    /\ heard = {}
    /\ heardApi = {}
    /\ delivered = <<>>
    /\ threw = FALSE
    /\ view = [path \in ScopedPaths |-> Undef]

\* setWithOptionalPath(state, path, value), which changes its argument.
SetAtPath(path, value) ==
  /\ calls < MaxCalls
  /\ calls' = calls + 1
  /\ prev' = state
  /\ state' = setWithOptionalPath(state, path, value)
  /\ op' = Op("setWithOptionalPath", path, value)
  /\ UNCHANGED <<initial, proxyState, same, fired, ran, heard, heardApi, delivered, threw, view>>

NextHelpers == \E path \in HelperPaths : \E value \in HelperValues : SetAtPath(path, value)

SpecHelpers == InitHelpers /\ [][NextHelpers]_vars

(***************************************************************************)
(* findChangedPaths on its own: the values change from one tree to another *)
(* and the changed paths are computed, as compute does.                    *)
(***************************************************************************)
Arr1(v) == Put(N("arr", 0), "0", v)

\* Values trees, {}, a key holding a number, undefined, an array or an
\* object, arrays, a number.
DiffTrees ==
  WholeInputs \cup {EmptyObj, Obj1("a", Num(0)), Obj1("a", Undef), Obj1("a", Arr1(Num(0))),
                     Obj1("a", Obj1("x", Num(0)))}
    \cup {Arr1(Num(i)) : i \in LeafVals} \cup {Num(1)}

OpResult(name, arg, result) ==
  [name |-> name, path |-> NoPath, arg |-> arg, result |-> result]

InitDiff ==
  \E tree \in DiffTrees :
    /\ state = tree
    /\ initial = tree
    /\ proxyState = Undef
    /\ same = {}
    /\ prev = tree
    /\ calls = 0
    /\ op = OpResult("values", tree, {})
    /\ fired = FALSE
    /\ ran = FALSE
    /\ heard = {}
    /\ heardApi = {}
    /\ delivered = <<>>
    /\ threw = FALSE
    /\ view = [path \in ScopedPaths |-> Undef]

\* findChangedPaths(previousValues, currentValues)
FindChanged(newObj) ==
  /\ calls < MaxCalls
  /\ calls' = calls + 1
  /\ prev' = state
  /\ state' = newObj
  /\ op' = OpResult("findChangedPaths", newObj, findChangedPaths(state, newObj, <<>>))
  /\ UNCHANGED <<initial, proxyState, same, fired, ran, heard, heardApi, delivered, threw, view>>

NextDiff == \E newObj \in DiffTrees : FindChanged(newObj)

SpecDiff == InitDiff /\ [][NextDiff]_vars

(***************************************************************************)
(* Vocabulary of the properties.                                           *)
(***************************************************************************)
Values(st) == Child(st, "values")

Errors(st) == Child(st, "errors")

Touched(st) == Child(st, "touched")

Dirty(st) == Child(st, "dirty")

\* The segments a path addresses, in either form.
SegsOf(path) == ToPath(path)

\* resolve(tree, path): the node the path addresses, the tree for no path.
Resolve(tree, path) == Sub(tree, SegsOf(path))

\* The slice of the four trees of a form state at a path.
Slice(st, path) ==
  [values |-> Resolve(Values(st), path), errors |-> Resolve(Errors(st), path),
   touched |-> Resolve(Touched(st), path), dirty |-> Resolve(Dirty(st), path)]

\* The key sequences at which a shadow tree carries the flag.
Flagged(tree, property) == {q \in Nodes(tree) : Child(Sub(tree, q), property) = True}

\* The changed paths of the last operation, as key sequences.
ChangedSegs == {StringToPath(path) : path \in findChangedPaths(Values(prev), Values(state), <<>>)}

\* A tree without the keys that hold undefined.
RECURSIVE Defined(_)
Defined(t) ==
  [t EXCEPT !.c = [key \in {j \in DOMAIN t.c : t.c[j].k # "undef"} |-> Defined(t.c[key])]]

Unrelated(p, q) == ~IsPrefix(p, q) /\ ~IsPrefix(q, p)

ValuesChanged == Values(state) # Values(prev)

Valid(st) == Issues(Schema, Values(st), <<>>) = {}

\* The last operation supplied values and nothing else.
ValueOnlyWrite ==
  \/ op.name = "onChange"
  \/ op.name \in {"scopedSetState", "rootSetState"} /\ Keys(op.arg) = {"values"}

C2_ScopedStateIsSlice ==
  \A path \in ScopedPaths :
    /\ Keys(ScopedGetState(path)) = FormKeys
    /\ \A key \in FormKeys :
         Child(ScopedGetState(path), key) = Resolve(Child(state, key), path)

C2_Witness ==
  /\ op.name = "onBlur" /\ op.path = PathAX
  /\ Child(ScopedGetState(PathAX), "values") = Num(1)
  /\ Child(ScopedGetState(PathAX), "touched") = Obj1("_touched", True)
  /\ Child(ScopedGetState(PathAX), "dirty") # Child(ScopedGetState(PathAX), "touched")
  /\ Child(ScopedGetState(PathB), "errors") # Undef

(***************************************************************************)
(* C3.  A scoped setState({values: x}) at p makes the root's values at p   *)
(* equal to x and leaves the value at every path that is neither p, below  *)
(* p nor above p as it was.                                                *)
(***************************************************************************)
C3_ScopedWritePropagates ==
  (op.name = "scopedSetState" /\ "values" \in Keys(op.arg)) =>
    /\ Resolve(Values(state), op.path) = Child(op.arg, "values")
    /\ \A q \in Nodes(Values(prev)) \cup Nodes(Values(state)) :
         Unrelated(SegsOf(op.path), q) => Sub(Values(state), q) = Sub(Values(prev), q)

C3_Witness ==
  /\ op.name = "scopedSetState" /\ op.path = PathAX
  /\ Child(op.arg, "values") = Num(1)
  /\ Resolve(Values(prev), PathAX) = Num(0)
  /\ Resolve(Values(state), PathAX) = Num(1)
  /\ Resolve(Values(state), PathB) = Num(0)

C6_ErrorsAbsentIffValid == (Errors(state) = Undef) <=> Valid(state)

C8_ListenerFollowsSlice ==
  /\ \A path \in ScopedPaths :
       /\ Slice(state, path) = Slice(prev, path) => path \notin heard
       /\ Slice(state, path).values # Slice(prev, path).values => path \in heard
  /\ \A path \in ApiPaths :
       path \in heardApi <=> Resolve(state, path) # Resolve(prev, path)

C8_Witness ==
  /\ op.name = "rootSetState"
  /\ fired
  /\ PathB \in heard
  /\ PathA \notin heard /\ PathAX \notin heard
  /\ Slice(state, PathB).values # Slice(prev, PathB).values
  /\ Str(<<"values">>) \in heardApi
  /\ Str(<<"values", ".", "a">>) \notin heardApi

(***************************************************************************)
(* C9.  As claimed: the listener of a scoped form store is invoked only    *)
(* when the values at its path differ.                                     *)
(***************************************************************************)
C9_Original ==
  \A path \in ScopedPaths :
    path \in heard => Slice(state, path).values # Slice(prev, path).values

(***************************************************************************)
(* C9, amended.  The listener of a scoped form store is invoked exactly    *)
(* when the slice at its path (values, errors, touched or dirty) differs;  *)
(* a change of only errors, touched or dirty at the path invokes it.       *)
(***************************************************************************)
C9_ListenerOnAnyTree ==
  \A path \in ScopedPaths :
    /\ path \in heard => Slice(state, path) # Slice(prev, path)
    /\ (/\ Slice(state, path).values = Slice(prev, path).values
        /\ \/ Slice(state, path).errors # Slice(prev, path).errors
           \/ Slice(state, path).touched # Slice(prev, path).touched
           \/ Slice(state, path).dirty # Slice(prev, path).dirty) => path \in heard

C9_Witness ==
  /\ op.name = "scopedSetState" /\ op.path = PathB
  /\ PathB \in heard
  /\ Slice(state, PathB).values = Slice(prev, PathB).values
  /\ Slice(state, PathB).touched # Slice(prev, PathB).touched

(***************************************************************************)
(* C10.  After onBlur of a controller bound to p, the touched projection   *)
(* of the controller shows _touched = true; the blur that sets the flag    *)
(* invokes the listeners of the scoped store at p although the values at p *)
(* are as they were.                                                       *)
(***************************************************************************)
C10_BlurReachesController ==
  (op.name = "onBlur" /\ op.path \in ScopedPaths) =>
    /\ Child(Child(view[op.path], "touched"), "_touched") = True
    /\ Child(Resolve(Touched(prev), op.path), "_touched") # True => op.path \in heard

C10_Witness ==
  /\ op.name = "onBlur" /\ op.path = PathAX
  /\ PathAX \in heard
  /\ Slice(state, PathAX).values = Slice(prev, PathAX).values
  /\ Child(Resolve(Touched(prev), PathAX), "_touched") # True
  /\ Child(Child(view[PathAX], "touched"), "_touched") = True

(***************************************************************************)
(* C11.  One call of scoped setState, onChange or onBlur is one transition *)
(* of the root store: the root listeners are handed at most one state, and *)
(* it is the final state, in which every tree the call wrote is written    *)
(* (the values and the touched flag supplied are at the path); compute has *)
(* run once when the state handed over differs in errors or marks.         *)
(***************************************************************************)
C11_OneRootTransition ==
  (op.name \in {"scopedSetState", "onChange", "onBlur"}) =>
    /\ Len(delivered) <= 1
    /\ fired <=> Len(delivered) = 1
    /\ \A i \in 1..Len(delivered) : delivered[i] = state
    /\ calls > 0
    /\ (op.name = "scopedSetState" /\ "values" \in Keys(op.arg)) =>
         Resolve(Values(state), op.path) = Child(op.arg, "values")
    /\ (op.name = "scopedSetState" /\ "touched" \in Keys(op.arg)) =>
         Child(Resolve(Touched(state), op.path), "_touched") = True
    /\ (Errors(state) # Errors(prev) \/ Flagged(Dirty(state), "_dirty") # Flagged(Dirty(prev), "_dirty"))
         => ran

C11_Witness ==
  /\ op.name = "onChange" /\ op.path = PathAX
  /\ delivered = <<state>>
  /\ ran
  /\ Values(state) # Values(prev)
  /\ Errors(state) # Errors(prev)
  /\ Touched(state) # Touched(prev)
  /\ Dirty(state) # Dirty(prev)


(***************************************************************************)
(* C12: a setState whose partial holds only top-level keys that the        *)
(* previous run of compute did not read (and that compute does not derive) *)
(* does not invoke compute and leaves every derived field as it was.       *)
(***************************************************************************)
ComputerOps == {"setState", "setSameData", "update"}

C12_UnreadKeysDoNotRecompute ==
  (op.name \in ComputerOps /\ Keys(op.arg) \cap (op.read \cup DerivedKeys) = {}) =>
    /\ ~ran
    /\ ~threw
    /\ \A key \in DerivedKeys : Child(state, key) = Child(prev, key)
    /\ \A key \in Keys(op.arg) : Child(state, key) = Child(op.arg, key)


(***************************************************************************)
(* C13: a setState whose partial gives every key a value equal to the      *)
(* current one (the same primitive, the same object, or a new object that  *)
(* is structurally equal) does not invoke compute.                         *)
(***************************************************************************)
C13_EqualValuesDoNotRecompute ==
  (op.name \in ComputerOps /\ \A key \in Keys(op.arg) : IsEqual(Child(op.arg, key), Child(prev, key)))
    => ~ran


(***************************************************************************)
(* C14: on a createComputer store whose compute returns (it is             *)
(* deterministic and has not thrown), after any sequence of setState calls *)
(* the derived fields of getState() are compute of the current state.      *)
(***************************************************************************)
C14_DerivedIsComputeOfState ==
  (~Throws(state) /\ ~Throws(proxyState)) =>
    \A key \in DerivedKeys : Child(state, key) = Child(compute(state), key)


(***************************************************************************)
(* C15: when compute throws during a setState, the setState does not throw *)
(* and afterwards every derived field has the value it had before.         *)
(***************************************************************************)
C15_ComputeErrorIsCaught ==
  (op.name \in ComputerOps /\ ran /\ Throws(Spread(prev, op.arg))) =>
    /\ ~threw
    /\ \A key \in DerivedKeys : Child(state, key) = Child(prev, key)


(***************************************************************************)
(* C16: right after a store is created from getDefaultForm(values), values *)
(* are the given values, errors are what the validator gives for them (a   *)
(* tree with the messages when it rejects them, undefined when it accepts  *)
(* them), and touched and dirty are absent.                                *)
(***************************************************************************)
C16_StateAfterCreation ==
  (op.name = "create") =>
    /\ Values(state) = op.arg
    /\ Errors(state) = errorsFormatted(Schema, op.arg)
    /\ Valid(state) <=> Errors(state) = Undef
    /\ Child(op.arg, "b") = Num(0) => Child(Child(Errors(state), "b"), "_errors") = ErrList(1)
    /\ "touched" \notin Keys(state)
    /\ "dirty" \notin Keys(state)

C16_Witness ==
  /\ op.name = "create"
  /\ ~Valid(state)
  /\ Child(Child(Errors(state), "b"), "_errors") = ErrList(1)
  /\ Keys(state) = {"values", "errors"}


(***************************************************************************)
(* C17: a setState on the root store that sets touched and dirty to        *)
(* undefined leaves both undefined in the resulting state, also when the   *)
(* same call changes values.                                               *)
(***************************************************************************)
ResetsMeta ==
  /\ op.name = "rootSetState"
  /\ {"touched", "dirty"} \subseteq Keys(op.arg)
  /\ Child(op.arg, "touched") = Undef
  /\ Child(op.arg, "dirty") = Undef

C17_ResetLeavesMetaAbsent ==
  ResetsMeta => Touched(state) = Undef /\ Dirty(state) = Undef

C17_Witness ==
  /\ ResetsMeta
  /\ "values" \in Keys(op.arg)
  /\ Values(state) # Values(prev)
  /\ ran
  /\ Touched(prev) # Undef
  /\ Dirty(prev) # Undef
  /\ Touched(state) = Undef
  /\ Dirty(state) = Undef


(***************************************************************************)
(* C18: on a store without withForm, the scoped setState changes only the  *)
(* fields its partial contains: for each of values, errors, touched and    *)
(* dirty that the partial omits, the value resolved at the path in the     *)
(* root tree is the same before and after the call; a field it contains    *)
(* is resolved to the value of the partial.                                *)
(***************************************************************************)
C18_ScopedWriteFrame ==
  (op.name = "plainScopedSetState") =>
    /\ \A key \in FormKeys \ Keys(op.arg) :
         Resolve(Child(state, key), op.path) = Resolve(Child(prev, key), op.path)
    /\ \A key \in Keys(op.arg) :
         Resolve(Child(state, key), op.path) = Child(op.arg, key)

C18_Witness ==
  /\ op.name = "plainScopedSetState"
  /\ op.path = PathAX
  /\ Keys(op.arg) = {"values"}
  /\ state # prev
  /\ Resolve(Child(prev, "touched"), op.path) = TouchedFlag
  /\ Resolve(Child(state, "touched"), op.path) = TouchedFlag
  /\ Resolve(Child(state, "values"), op.path) # Resolve(Child(prev, "values"), op.path)


(***************************************************************************)
(* C19: a write of new values is applied also when the validator rejects   *)
(* the resulting values: values hold what was written, errors hold the     *)
(* messages of the validator at the rejected nodes, nothing is thrown; a   *)
(* write that follows is applied and validated in the same way.            *)
(***************************************************************************)
ValueWrites == {"rootSetState", "scopedSetState", "onChange", "onFormChange"}

\* The values the last operation wrote are where it wrote them.
WrittenValuesHeld ==
  /\ op.name = "onChange" => Resolve(Values(state), op.path) = op.arg
  /\ op.name = "onFormChange" => Values(state) = op.arg
  /\ (op.name = "rootSetState" /\ "values" \in Keys(op.arg)) =>
       Values(state) = Child(op.arg, "values")
  /\ (op.name = "scopedSetState" /\ "values" \in Keys(op.arg)) =>
       Resolve(Values(state), op.path) = Child(op.arg, "values")

\* The last operation wrote values that differ from the ones it found.
WroteNewValues ==
  \/ op.name = "onChange" /\ Resolve(Values(prev), op.path) # op.arg
  \/ op.name = "onFormChange" /\ Values(prev) # op.arg
  \/ op.name = "rootSetState" /\ "values" \in Keys(op.arg)
       /\ Values(prev) # Child(op.arg, "values")
  \/ op.name = "scopedSetState" /\ "values" \in Keys(op.arg)
       /\ Resolve(Values(prev), op.path) # Child(op.arg, "values")

C19_InvalidWriteIsApplied ==
  (op.name \in ValueWrites /\ WroteNewValues) =>
    /\ ~threw
    /\ fired
    /\ WrittenValuesHeld
    /\ Errors(state) = errorsFormatted(Schema, Values(state))
    /\ \A q \in Issues(Schema, Values(state), <<>>) :
         Child(Sub(Errors(state), q), "_errors") = ErrList(1)

C19_Witness ==
  /\ op.name = "onChange"
  /\ calls = 2
  /\ Values(prev) # Values(initial)
  /\ ~Valid(prev)
  /\ WroteNewValues
  /\ ~Valid(state)
  /\ Errors(state) # Errors(prev)
  /\ Resolve(Values(state), op.path) = op.arg


(***************************************************************************)
(* C20.  As claimed: for every object, every path, the empty path          *)
(* included, and every value, what getWithOptionalPath reads at the path   *)
(* after setWithOptionalPath wrote the value there equals the value.       *)
(***************************************************************************)
C20_Original ==
  (op.name = "setWithOptionalPath") => IsEqual(getWithOptionalPath(state, op.path), op.arg)

(***************************************************************************)
(* C20, amended: for an object and a path that is not empty, what          *)
(* getWithOptionalPath reads at the path after setWithOptionalPath wrote a *)
(* value there equals the value.  For the empty path (undefined or '')     *)
(* the own keys of the value are merged into the object: what is read is   *)
(* the object with these keys set, which equals the value exactly when the *)
(* value is an object and the object had no other key.                     *)
(***************************************************************************)
C20_RoundTrip ==
  (op.name = "setWithOptionalPath") =>
    IF Falsy(op.path)
      THEN /\ Keys(getWithOptionalPath(state, op.path)) = Keys(prev) \cup Keys(op.arg)
           /\ \A key \in Keys(op.arg) :
                Child(getWithOptionalPath(state, op.path), key) = Child(op.arg, key)
           /\ \A key \in Keys(prev) \ Keys(op.arg) :
                Child(getWithOptionalPath(state, op.path), key) = Child(prev, key)
           /\ IsEqual(getWithOptionalPath(state, op.path), op.arg)
                <=> (IsObjectLike(op.arg) /\ Keys(prev) \subseteq Keys(op.arg))
      ELSE IsEqual(getWithOptionalPath(state, op.path), op.arg)

C20_Witness ==
  /\ op.name = "setWithOptionalPath"
  /\ op.path = Str(<<"a", ".", "x">>)
  /\ Child(prev, "a") = Undef
  /\ op.arg = Num(1)
  /\ getWithOptionalPath(state, op.path) = Num(1)
  /\ Child(state, "b") = Child(prev, "b")


(***************************************************************************)
(* C21: findChangedPaths(a, a) is empty; for objects or arrays a and b the *)
(* result is exactly the set of the deepest paths at which a and b differ, *)
(* where the descent stops at a node that is not an object on both sides   *)
(* or is an array on one side only; a key that only one side has with a    *)
(* value is in it, and it never holds a path together with an ancestor.    *)
(***************************************************************************)
\* The descent of the comparison stops at this pair of nodes.
StopsAt(x, y) ==
  ~IsObjectLike(x) \/ ~IsObjectLike(y) \/ (Kind(x) = "arr") # (Kind(y) = "arr")

\* The deepest differing paths of a and b, as key sequences.
DeepestDiffs(a, b) ==
  {p \in (Nodes(a) \cup Nodes(b)) \ {<<>>} :
     /\ Sub(a, p) # Sub(b, p)
     /\ StopsAt(Sub(a, p), Sub(b, p))
     /\ \A n \in 0..(Len(p) - 1) :
          ~StopsAt(Sub(a, SubSeq(p, 1, n)), Sub(b, SubSeq(p, 1, n)))}

WrittenThrough(q) ==
  IF op.name = "onChange"
    THEN setWithOptionalPath(getScopedFormState(prev, q), Str(<<"values">>), op.arg)
  ELSE IF op.name = "onBlur"
    THEN setWithOptionalPath(getScopedFormState(prev, q),
                             Str(<<"touched", ".", "_touched">>), True)
  ELSE op.arg

DraftThrough(q) == ScopedWrite(prev, q, WrittenThrough(q))

C22_PathFormsAgree ==
  \A forms \in {IndexForms, KeyForms} : \A p \in forms : \A q \in forms :
    /\ getScopedFormState(state, p) = getScopedFormState(state, q)
    /\ ScopedListenerInvoked(state, prev, p) <=> ScopedListenerInvoked(state, prev, q)
    /\ (op.name \in {"scopedSetState", "onChange", "onBlur"} /\ op.path = p) =>
         /\ DraftThrough(q) = DraftThrough(p)
         /\ Values(state) = Values(DraftThrough(q))

C22_Witness ==
  /\ op.name = "onChange"
  /\ op.path = Tup(<<"a", Index0>>)
  /\ op.arg = Num(1)
  /\ Kind(Child(Values(state), "a")) = "arr"
  /\ Get(Values(prev), Str(<<"a", ".", "0">>)) = Num(0)
  /\ Get(Values(state), Str(<<"a", ".", "0">>)) = Num(1)
  /\ Get(Values(state), Tup(<<"a", "0">>)) = Num(1)


(***************************************************************************)
(* C23: with an undefined or empty-string path getWithOptionalPath returns *)
(* the tree itself, and setWithOptionalPath merges the own properties of   *)
(* the value into the tree, one level deep: the keys of the value get its  *)
(* values, every other key of the tree keeps its value, no key is added    *)
(* beside these.                                                           *)
(***************************************************************************)
EmptyPaths == {NoPath, Str(<<>>)}

C23_EmptyPathIsTheTree ==
  /\ \A path \in EmptyPaths : getWithOptionalPath(state, path) = state
  /\ (op.name = "setWithOptionalPath" /\ op.path \in EmptyPaths) =>
       /\ Keys(state) = Keys(prev) \cup Keys(op.arg)
       /\ \A key \in Keys(op.arg) : Child(state, key) = Child(op.arg, key)
       /\ \A key \in Keys(prev) \ Keys(op.arg) : Child(state, key) = Child(prev, key)

C23_Witness ==
  /\ op.name = "setWithOptionalPath"
  /\ op.path = Str(<<>>)
  /\ op.arg = Obj1("b", Num(1))
  /\ Child(prev, "b") = Num(0)
  /\ IsObjectLike(Child(prev, "a"))
  /\ Child(state, "a") = Child(prev, "a")
  /\ Child(state, "b") = Num(1)


(***************************************************************************)
(* C24.  As claimed: reading through a scoped store whose path does not    *)
(* exist in the current values yields undefined for values, errors,        *)
(* touched and dirty.                                                      *)
(***************************************************************************)
\* The tree has a node at the path.
HasNode(tree, path) == SegsOf(path) \in Nodes(tree)

AllUndefined == Put(Put(Put(Put(EmptyObj, "values", Undef), "errors", Undef),
                        "dirty", Undef), "touched", Undef)

C24_Original ==
  \A path \in ScopedPaths :
    ~HasNode(Values(state), path) => ScopedGetState(path) = AllUndefined

(***************************************************************************)
(* C24, amended: reading through a scoped store yields undefined for       *)
(* values when the path does not exist in the current values, and for each *)
(* of errors, touched and dirty when that tree has no node at the path     *)
(* (the validator reports a missing required value at the path, and marks  *)
(* made earlier stay); nothing is thrown.  A write of values through a     *)
(* scoped store whose path did not exist creates the missing containers,   *)
(* and a read at the path then returns the written value.                  *)
(***************************************************************************)
C24_MissingPathReadsAndWrites ==
  /\ ~threw
  /\ \A path \in ScopedPaths : \A key \in FormKeys :
       ~HasNode(Child(state, key), path) => Child(ScopedGetState(path), key) = Undef
  /\ (op.name = "scopedSetState" /\ "values" \in Keys(op.arg) /\ ~HasNode(Values(prev), op.path)) =>
       /\ Child(ScopedGetState(op.path), "values") = Child(op.arg, "values")
       /\ \A n \in 1..(Len(SegsOf(op.path)) - 1) :
            IsObjectLike(Sub(Values(state), SubSeq(SegsOf(op.path), 1, n)))
  /\ (op.name = "onChange" /\ ~HasNode(Values(prev), op.path)) =>
       Child(ScopedGetState(op.path), "values") = op.arg

C24_Witness ==
  /\ op.name = "scopedSetState"
  /\ op.path = PathAX
  /\ ~HasNode(Values(prev), PathA)
  /\ Child(op.arg, "values") = Num(1)
  /\ Child(Values(state), "a") = Obj1("x", Num(1))
  /\ Child(ScopedGetState(PathAX), "values") = Num(1)


(***************************************************************************)
(* Specification SpecFormPath: a store made with                           *)
(*   withForm(creator, {formPath: 'form', getSchema})                      *)
(* whose state keeps the form under the key form, beside a key other.  The *)
(* form node may be absent from the state.                                 *)
(***************************************************************************)
FormAt == Str(<<"form">>)

\* runCompute(merged) with the form kept at path.
runComputeAt(path, merged) == createFormComputerAt(path, merged, state)

FormPathStates ==
  {Obj1("other", Num(o)) : o \in LeafVals}
    \cup {Obj2("form", getDefaultForm(values), "other", Num(o)) :
            values \in WholeInputs, o \in LeafVals}

\* The partials given to setState: the key beside the form, a new form, the
\* form taken away.
FormPathPartials ==
  {Obj1("other", Num(o)) : o \in LeafVals}
    \cup {Obj1("form", getDefaultForm(values)) : values \in WholeInputs}
    \cup {Obj1("form", Undef)}

\* The recipe reads the form node; when it finds one it assigns on the
\* draft, and the copy made of the proxied state reads every key.
FormPathUsedKeys(proxied) ==
  IF Truthy(Child(proxied, "form")) THEN Keys(proxied) \cup {"form"} ELSE {"form"}

InitFormPath ==
  \E initialState \in FormPathStates :
    LET initialComputed == createFormComputerAt(FormAt, initialState, Undef)
    IN  /\ state = Spread(initialState, initialComputed)
        /\ initial = Spread(initialState, initialComputed)
        /\ proxyState = ByIdentity(initialState)
        /\ same = {key \in Keys(initialState) :
                     Child(initialComputed, key) = Child(initialState, key) /\ key # "form"}
        /\ prev = Spread(initialState, initialComputed)
        /\ calls = 0
        /\ op = Op("create", FormAt, initialState)
        /\ fired = FALSE
        /\ ran = TRUE
        /\ heard = {}
        /\ heardApi = {}
        /\ delivered = <<>>
        /\ threw = FALSE
        /\ view = [path \in ScopedPaths |-> Undef]

\* setWithComputed(partial) of the store whose form is kept at FormAt.
FormPathSetWithComputed(nextPartial, mod) ==
  LET merged == Spread(state, nextPartial)
      touched == isChangedFor(proxyState, merged, mod, FormPathUsedKeys(proxyState),
                              Truthy(Child(proxyState, "form")))
      computed == runComputeAt(FormAt, merged)
      withComputed == WithComputed(nextPartial, computed)
  IN  /\ calls < MaxCalls
      /\ initial' = initial
      /\ calls' = calls + 1
      /\ prev' = state
      /\ ran' = touched
      /\ threw' = FALSE
      /\ heard' = {}
      /\ heardApi' = {}
      /\ view' = view
      /\ fired' = TRUE
      /\ IF touched
           THEN /\ proxyState' = ByIdentity(merged)
                /\ state' = Spread(state, withComputed)
                /\ same' = {key \in Keys(merged) :
                              Child(computed, key) = Child(merged, key) /\ key # "form"}
                /\ delivered' = <<Spread(state, withComputed)>>
           ELSE /\ proxyState' = proxyState
                /\ state' = Spread(state, nextPartial)
                /\ same' = same \ mod
                /\ delivered' = <<Spread(state, nextPartial)>>

\* api.setState(partial)
FormPathSetState(partial) ==
  /\ FormPathSetWithComputed(partial, FreshKeys(partial, Keys(partial)))
  /\ op' = Op("formPathSetState", FormAt, partial)

NextFormPath == \E partial \in FormPathPartials : FormPathSetState(partial)

SpecFormPath == InitFormPath /\ [][NextFormPath]_vars


(***************************************************************************)
(* C25.  When withForm is configured with a formPath at which the          *)
(* candidate state (the state merged with the caller's partial) has no     *)
(* node, setState applies the partial unchanged: the new state is the old  *)
(* one with the partial's keys, no errors, touched or dirty key is added   *)
(* anywhere, and nothing is thrown.                                        *)
(***************************************************************************)
C25_MissingFormNodeIsLeftAlone ==
  (op.name = "formPathSetState" /\ ~Truthy(Child(Spread(prev, op.arg), "form"))) =>
    /\ state = Spread(prev, op.arg)
    /\ Keys(state) \cap {"errors", "touched", "dirty"} = {}
    /\ ~Truthy(Child(state, "form"))
    /\ ~threw

C25_Witness ==
  /\ op.name = "formPathSetState"
  /\ op.arg = Obj1("form", Undef)
  /\ Truthy(Child(prev, "form"))
  /\ ran
  /\ Child(state, "form") = Undef
  /\ Child(state, "other") = Child(prev, "other")


(***************************************************************************)
(* C26.  The form's recompute step is idempotent: run again on a state     *)
(* whose values did not change, it yields the same errors tree and changes *)
(* no touched or dirty flag.  Run on the state the store holds it changes  *)
(* neither touched nor dirty, a second run on its result changes nothing,  *)
(* and a root setState that runs it without changing values leaves touched *)
(* and dirty as the caller's partial has them, with the errors of the      *)
(* values.                                                                 *)
(***************************************************************************)
C26_RecomputeIsIdempotent ==
  LET once == runCompute(state)
      twice == createFormComputer(once, once)
      merged == Spread(prev, op.arg)
  IN  /\ Child(once, "touched") = Child(state, "touched")
      /\ Child(once, "dirty") = Child(state, "dirty")
      /\ Child(once, "errors") = errorsFormatted(getSchema(state), Values(state))
      /\ twice = once
      /\ (op.name = "rootSetState" /\ ran /\ IsEqual(Values(state), Values(prev))) =>
           /\ Child(state, "touched") = Child(merged, "touched")
           /\ Child(state, "dirty") = Child(merged, "dirty")
           /\ Child(state, "errors") = errorsFormatted(getSchema(state), Values(state))

C26_Witness ==
  /\ op.name = "rootSetState"
  /\ ran
  /\ Keys(op.arg) = {"values"}
  /\ Values(state) = Values(prev)
  /\ Child(state, "errors") # Undef
  /\ Child(state, "errors") = Child(prev, "errors")
  /\ IsObjectLike(Child(state, "touched"))
  /\ Child(state, "touched") = Child(prev, "touched")
  /\ Sub(Child(state, "touched"), <<"b", "_touched">>) = Undef


(***************************************************************************)
(* Specification SpecUpdater: FormControllers whose handlers call          *)
(* onChange with an updater function.  Here view is what the component     *)
(* rendered last: it follows the store when the component renders again,   *)
(* which happens after the handler that wrote has returned.                *)
(***************************************************************************)
Updaters == {"increment", "double"}

\* (prev) => prev + 1 and (prev) => prev * 2
ApplyUpdater(updater, leaf) ==
  IF updater = "increment" THEN Num(leaf.v + 1) ELSE Num(leaf.v * 2)

\* The names of the controllers: the number fields of the form.
UpdaterNames == {PathAX, PathB}

InitUpdater ==
  \E values \in {V \in WholeInputs : "a" \in Keys(V)} :
    LET initialState == getDefaultForm(values)
        initialComputed == createFormComputer(initialState, Undef)
    IN  /\ state = Spread(initialState, initialComputed)
        /\ initial = Spread(initialState, initialComputed)
        /\ proxyState = ByIdentity(initialState)
        /\ same = KeptKeys(initialComputed, initialState)
        /\ prev = Spread(initialState, initialComputed)
        /\ calls = 0
        /\ op = Op("create", NoPath, "none")
        /\ fired = FALSE
        /\ ran = TRUE
        /\ heard = {}
        /\ heardApi = {}
        /\ delivered = <<>>
        /\ threw = FALSE
        /\ view = [path \in ScopedPaths |->
                     getScopedFormState(Spread(initialState, initialComputed), path)]

\* onChange(updater): scopedStore.setState(state => produce(state, draft =>
\* setWithOptionalPath(draft, 'values', updater(draft.values)))), followed
\* by the middleware's setWithComputed; the component does not render
\* before the handler returns.
OnChangeUpdater(name, updater) ==
  LET given == ControllerState(name)
      written == setWithOptionalPath(given, Str(<<"values">>),
                                     ApplyUpdater(updater, Child(given, "values")))
      draft == ScopedWrite(state, name, written)
      mod == ModifiedKeys(draft, {})
      merged == Spread(state, draft)
      touched == isChanged(proxyState, merged, mod)
      computed == runCompute(merged)
      newState == IF touched THEN Spread(state, WithComputed(draft, computed))
                  ELSE Spread(state, draft)
  IN  /\ calls < MaxCalls
      /\ calls' = calls + 1
      /\ initial' = initial
      /\ prev' = state
      /\ ran' = touched
      /\ threw' = FALSE
      /\ proxyState' = IF touched THEN ByIdentity(merged) ELSE proxyState
      /\ same' = IF touched THEN KeptKeys(computed, merged)
                 ELSE IF mod = {} THEN same ELSE Keys(newState)
      /\ state' = newState
      /\ fired' = (touched \/ mod # {})
      /\ delivered' = IF touched \/ mod # {} THEN <<newState>> ELSE <<>>
      /\ heard' = {path \in ScopedPaths :
                     (touched \/ mod # {}) /\ ScopedListenerInvoked(newState, state, path)}
      /\ heardApi' = {}
      /\ view' = view
      /\ op' = Op("onChangeUpdater", name, updater)

\* The component renders again with the state of its scoped store.
Render ==
  /\ view # [path \in ScopedPaths |-> getScopedFormState(state, path)]
  /\ view' = [path \in ScopedPaths |-> getScopedFormState(state, path)]
  /\ UNCHANGED <<state, initial, proxyState, same, prev, op, fired, ran, heard, heardApi,
                 calls, delivered, threw>>

NextUpdater ==
  \/ \E name \in UpdaterNames : \E updater \in Updaters : OnChangeUpdater(name, updater)
  \/ Render

SpecUpdater == InitUpdater /\ [][NextUpdater]_vars


(***************************************************************************)
(* C27.  onChange(updater) calls the updater with the leaf value the store *)
(* holds at the moment the write is applied, not with the value the        *)
(* component rendered: after the call the leaf is the updater applied to   *)
(* the leaf of the state before the call, so two successive calls from the *)
(* same render both take effect, the second on the result of the first.    *)
(***************************************************************************)
C27_UpdaterSeesStoreValue ==
  op.name = "onChangeUpdater" =>
    Get(Values(state), op.path) = ApplyUpdater(op.arg, Get(Values(prev), op.path))

\* The second of two increments from one render: rendered 1, held 2, now 3.
C27_Witness ==
  /\ op.name = "onChangeUpdater"
  /\ op.path = PathB
  /\ op.arg = "increment"
  /\ calls = 2
  /\ Child(view[PathB], "values") = Num(1)
  /\ Get(Values(prev), PathB) = Num(2)
  /\ Get(Values(state), PathB) = Num(3)


(***************************************************************************)
(* Specification SpecOrder: scoped stores of one withForm root written one *)
(* after the other.  The operation keeps, beside its own path and partial, *)
(* those of the write before it and the store that write was made on, so   *)
(* that the two writes can be replayed in the other order.                 *)
(***************************************************************************)
\* What setWithComputed reads and writes, as one value.
StoreOf(st, proxied, kept) == [state |-> st, proxyState |-> proxied, same |-> kept]

\* isChanged(proxyState, merged, affected, ...) for the store given.
StoreChanged(store, merged, mod) ==
  \/ Keys(store.proxyState) # Keys(merged)
  \/ \E key \in UsedKeys(store.proxyState) :
       IF IsObjectLike(Child(store.proxyState, key)) /\ IsObjectLike(Child(merged, key))
         THEN ~(key \in store.same /\ key \notin mod)
         ELSE \/ IsObjectLike(Child(store.proxyState, key))
              \/ Child(store.proxyState, key) # Child(merged, key)

\* runCompute(merged) handing compute the state the given store holds.
runComputeOn(store, merged) == createFormComputer(merged, store.state)

\* getScopedFormApi(store, path).setState as a function of the store it is
\* called on; partialState is the partial or what the updater returned,
\* fresh are the keys for which the caller made a new object.
ScopedSetWith(store, path, partialState, fresh) ==
  LET draft == ScopedWrite(store.state, path, partialState)
      mod == {key \in Keys(draft) \cup Keys(store.state) :
                Child(draft, key) # Child(store.state, key)} \cup fresh
      merged == Spread(store.state, draft)
      computed == runComputeOn(store, merged)
  IN  IF StoreChanged(store, merged, mod)
        THEN StoreOf(Spread(store.state, WithComputed(draft, computed)),
                     ByIdentity(merged), KeptKeys(computed, merged))
        ELSE StoreOf(Spread(store.state, draft), store.proxyState,
                     IF mod = {} THEN store.same ELSE Keys(Spread(store.state, draft)))

\* setState(partial) with an object.
ScopedSetOn(store, path, partial) ==
  ScopedSetWith(store, path, partial, FreshKeys(partial, Keys(partial)))

\* A write of values through the scoped store of the path.
OrderedWrite(path, value) ==
  LET partial == Obj1("values", value)
      draft == ScopedWrite(state, path, partial)
      mod == ModifiedKeys(draft, FreshKeys(partial, Keys(partial)))
  IN  /\ setWithComputed(draft, mod, mod = {})
      /\ op' = [name |-> "orderedWrite", path |-> path, arg |-> partial,
                from |-> StoreOf(state, proxyState, same),
                last |-> IF op.name = "orderedWrite"
                           THEN [path |-> op.path, arg |-> op.arg, from |-> op.from]
                           ELSE [path |-> NoPath, arg |-> Undef,
                                 from |-> StoreOf(state, proxyState, same)]]

NextOrder == \E path \in ScopedPaths : \E value \in InputsAt(path) : OrderedWrite(path, value)

SpecOrder == Init /\ [][NextOrder]_vars


(***************************************************************************)
(* C28.  For two scoped stores at disjoint paths p and q of the same       *)
(* withForm root, writing x at p and then y at q gives the same final root *)
(* state (values, errors, touched, dirty) as writing y at q and then x at  *)
(* p, and both written values are present in the final values.             *)
(***************************************************************************)
\* Neither path leads through the other.
Disjoint(p, q) == ~IsPrefix(SegsOf(p), SegsOf(q)) /\ ~IsPrefix(SegsOf(q), SegsOf(p))

C28_DisjointWritesCommute ==
  (op.name = "orderedWrite" /\ ~Falsy(op.last.path) /\ Disjoint(op.last.path, op.path)) =>
    LET thisOrder == ScopedSetOn(ScopedSetOn(op.last.from, op.last.path, op.last.arg),
                                 op.path, op.arg)
        otherOrder == ScopedSetOn(ScopedSetOn(op.last.from, op.path, op.arg),
                                  op.last.path, op.last.arg)
    IN  /\ state = thisOrder.state
        /\ otherOrder.state = state
        /\ Get(Values(state), op.path) = Child(op.arg, "values")
        /\ Get(Values(state), op.last.path) = Child(op.last.arg, "values")

\* b was written after a.x, on a form that had no a: both are there and
\* both are marked.
C28_Witness ==
  /\ op.name = "orderedWrite"
  /\ ~Falsy(op.last.path)
  /\ op.last.path = PathAX
  /\ op.path = PathB
  /\ "a" \notin Keys(Values(op.last.from.state))
  /\ Values(state) = Obj2("a", Obj1("x", Num(1)), "b", Num(1))
  /\ Child(op.last.from.state, "values") = Obj1("b", Num(0))
  /\ Sub(Child(state, "dirty"), <<"b", "_dirty">>) = True
  /\ Sub(Child(state, "dirty"), <<"a", "_dirty">>) = True


(***************************************************************************)
(* Specification SpecNested: the scoped store of a scoped store,           *)
(*   getScopedFormApi(getScopedFormApi(root, 'a'), inner),                 *)
(* as a FormController makes it when it is given a scoped store and a      *)
(* name, with setState, onChange and onBlur called on it.                  *)
(***************************************************************************)
InnerPaths == {Str(<<"x">>), Tup(<<"x">>)}

NestedKinds == {"nestedSetState", "nestedOnChange", "nestedOnBlur"}

NestedInputs(kind) ==
  IF kind = "nestedSetState" THEN ScopedPartials(PathAX)
  ELSE IF kind = "nestedOnChange" THEN InputsAt(PathAX)
  ELSE {Undef}

\* What the scoped setState is given: the partial, or the result of the
\* controller's updater applied to the scoped state.
Written(kind, scoped, input) ==
  IF kind = "nestedSetState" THEN input
  ELSE IF kind = "nestedOnChange" THEN setWithOptionalPath(scoped, Str(<<"values">>), input)
  ELSE setWithOptionalPath(scoped, Str(<<"touched", ".", "_touched">>), True)

\* The keys for which the caller made a new object.
Fresh(kind, input) ==
  IF kind = "nestedSetState" THEN FreshKeys(input, Keys(input))
  ELSE IF kind = "nestedOnChange" THEN FreshKeys(Obj1("values", input), {"values"})
  ELSE {}

\* The inner store hands the outer store's setState an updater: the outer
\* scoped state with the four trees written at the inner path.
NestedCall(kind, inner, input) ==
  LET outerState == getScopedFormState(state, PathA)
      innerState == getScopedFormState(outerState, inner)
      outerWritten == ScopedWrite(outerState, inner, Written(kind, innerState, input))
      draft == ScopedWrite(state, PathA, outerWritten)
      mod == ModifiedKeys(draft, Fresh(kind, input))
  IN  /\ setWithComputed(draft, mod, mod = {})
      /\ op' = [name |-> kind, path |-> inner, arg |-> input,
                from |-> StoreOf(state, proxyState, same)]

NextNested ==
  \E kind \in NestedKinds : \E inner \in InnerPaths : \E input \in NestedInputs(kind) :
    NestedCall(kind, inner, input)

SpecNested == Init /\ [][NextNested]_vars


(***************************************************************************)
(* C29.  Scoping composes: the scoped store of the scoped store at a, made *)
(* with the path x, behaves as the scoped store of the root made with a.x. *)
(* Both return the same getState, and a setState, onChange or onBlur       *)
(* through the nested store leaves the root store as the same call through *)
(* the store at a.x would have left it (so that equal sequences of calls   *)
(* give equal root states).                                                *)
(***************************************************************************)
C29_ScopingComposes ==
  /\ \A inner \in InnerPaths : \A flat \in KeyForms :
       getScopedFormState(getScopedFormState(state, PathA), inner)
         = getScopedFormState(state, flat)
  /\ op.name \in NestedKinds =>
       \A flat \in KeyForms :
         StoreOf(state, proxyState, same)
           = ScopedSetWith(op.from, flat,
                           Written(op.name, getScopedFormState(op.from.state, flat), op.arg),
                           Fresh(op.name, op.arg))

\* A change through the nested store on a form whose values had no a.
C29_Witness ==
  /\ op.name = "nestedOnChange"
  /\ op.arg = Num(1)
  /\ Values(op.from.state) = Obj1("b", Num(0))
  /\ Values(state) = Obj2("a", Obj1("x", Num(1)), "b", Num(0))
  /\ Child(getScopedFormState(getScopedFormState(state, PathA), Str(<<"x">>)), "values") = Num(1)


(***************************************************************************)
(* C30.  As claimed: when the form computation marks a changed path p, the *)
(* flag is set on p and on every non-empty proper prefix of p, in both     *)
(* touched and dirty, and the root node of a shadow tree gets no flag.     *)
(* The computation is taken to mark when the state has a tree to mark in.  *)
(***************************************************************************)
\* p and its non-empty prefixes.
UpTo(p) == {SubSeq(p, 1, n) : n \in 1..Len(p)}

\* The computation left the root node of the shadow trees without a flag:
\* a flag at the root of touched is the blur of a controller without name.
RootUnmarked ==
  /\ <<>> \in Flagged(Touched(state), "_touched") =>
       \/ <<>> \in Flagged(Touched(prev), "_touched")
       \/ op.name = "onBlur" /\ Falsy(op.path)
  /\ <<>> \notin Flagged(Dirty(state), "_dirty")

TouchOnly ==
  \/ op.name = "onBlur"
  \/ op.name \in {"scopedSetState", "rootSetState"} /\ Keys(op.arg) = {"touched"}

C31_DirtyStaysUndefined ==
  (TouchOnly /\ ~ValuesChanged /\ Dirty(prev) = Undef) => ~Truthy(Dirty(state))


(***************************************************************************)
(* C32.  In every reachable state every node of the touched and dirty      *)
(* trees lies at a path that exists in the current values; in particular,  *)
(* after an array element was removed through onChange on the array, no    *)
(* touched or dirty node remains at an index beyond the array's new        *)
(* length.                                                                 *)
(***************************************************************************)
\* The nodes of a shadow tree: the paths that hold something defined, the
\* flags themselves left aside.
ShadowNodes(tree, property) ==
  {q \in Nodes(tree) : q # <<>> /\ q[Len(q)] # property /\ Sub(tree, q) # Undef}

C34_InitialStateIsFixed ==
  /\ \A path \in ScopedPaths : ScopedGetInitialState(path) = ScopedGetState(path)
  /\ \A path \in ApiPaths : ApiGetInitialState(path) = Get(state, path)
  /\ [][/\ \A path \in ScopedPaths :
             ScopedGetInitialState(path)' = ScopedGetInitialState(path)
        /\ \A path \in ApiPaths : ApiGetInitialState(path)' = ApiGetInitialState(path)]_vars

\* b was created as 0 and written to 1 through its scoped store.
C34_Witness ==
  /\ op.name = "scopedSetState"
  /\ op.path = PathB
  /\ calls = 2
  /\ Child(ScopedGetInitialState(PathB), "values") = Num(0)
  /\ Child(ScopedGetState(PathB), "values") = Num(1)
  /\ ApiGetInitialState(Str(<<"values">>)) # Get(state, Str(<<"values">>))


(***************************************************************************)
(* C35.  As claimed: findChangedPaths(a, b) is empty only if a deep-equals *)
(* b; whenever the previous and the new values differ at least one changed *)
(* path is reported, also when the whole tree is replaced by a value of a  *)
(* different kind.                                                         *)
(***************************************************************************)
C35_Original ==
  (op.name = "findChangedPaths" /\ ~IsEqual(prev, state)) => op.result # {}

(***************************************************************************)
(* C35, amended: findChangedPaths(a, b) is empty exactly when a and b are  *)
(* equal up to keys that hold undefined, or when a and b are not both      *)
(* objects or both arrays: a tree replaced by a value of another kind      *)
(* (object, array, primitive) has no path of its own and nothing is        *)
(* reported for it.  Two objects or two arrays that differ in a defined    *)
(* value have at least one changed path.                                   *)
(***************************************************************************)
C35_EmptyDiff ==
  (op.name = "findChangedPaths") =>
    (op.result = {} <=> (StopsAt(prev, state) \/ Defined(prev) = Defined(state)))

\* An object replaced by an array: they differ and no path is reported.
C35_Witness ==
  /\ op.name = "findChangedPaths"
  /\ Kind(prev) = "obj"
  /\ Kind(state) = "arr"
  /\ op.result = {}


(***************************************************************************)
(* Specification SpecMerge: mergePaths applied to three optional path      *)
(* fragments: undefined, '', dot-strings and tuples.                       *)
(***************************************************************************)
Fragments ==
  {NoPath, Str(<<>>), Str(<<"values">>), PathA, Str(<<"a", ".", "x">>), PathAX,
   Str(<<"a", ".", "0">>), Tup(<<"a", Index0>>)}

InitMerge ==
  /\ state = Undef
  /\ initial = Undef
  /\ proxyState = Undef
  /\ same = {}
  /\ prev = Undef
  /\ calls = 0
  /\ op = OpResult("fragments", <<NoPath, NoPath, NoPath>>, NoPath)
  /\ fired = FALSE
  /\ ran = FALSE
  /\ heard = {}
  /\ heardApi = {}
  /\ delivered = <<>>
  /\ threw = FALSE
  /\ view = [path \in ScopedPaths |-> Undef]

\* mergePaths(a, b, c)
MergeFragments(a, b, c) ==
  /\ calls < MaxCalls
  /\ calls' = calls + 1
  /\ op' = OpResult("mergePaths", <<a, b, c>>, mergePaths(<<a, b, c>>))
  /\ UNCHANGED <<state, initial, proxyState, same, prev, fired, ran, heard, heardApi,
                 delivered, threw, view>>

NextMerge == \E a \in Fragments : \E b \in Fragments : \E c \in Fragments : MergeFragments(a, b, c)

SpecMerge == InitMerge /\ [][NextMerge]_vars


(***************************************************************************)
(* C36.  As claimed: mergePaths ignores undefined and empty-string         *)
(* fragments and is associative:                                           *)
(*   mergePaths(a, undefined, b) = mergePaths(a, '', b) = mergePaths(a, b) *)
(*   mergePaths(mergePaths(a, b), c) = mergePaths(a, b, c)                 *)
(* and a string fragment and a tuple fragment with the same segments give  *)
(* the same result.                                                        *)
(***************************************************************************)
\* mergePaths(mergePaths(a, b), c) = mergePaths(a, b, c), and a fragment of
\* the other form with the same segments in the place of b changes nothing.
Associative(a, b, c) ==
  /\ mergePaths(<<mergePaths(<<a, b>>), c>>) = mergePaths(<<a, b, c>>)
  /\ \A d \in Fragments :
       (d.k # "undef" /\ b.k # "undef" /\ ToPath(d) = ToPath(b)) =>
         mergePaths(<<a, d, c>>) = mergePaths(<<a, b, c>>)

C36_Original ==
  (op.name = "mergePaths") =>
    LET a == op.arg[1]
        b == op.arg[2]
        c == op.arg[3]
    IN  /\ mergePaths(<<a, NoPath, b>>) = mergePaths(<<a, b>>)
        /\ mergePaths(<<a, Str(<<>>), b>>) = mergePaths(<<a, b>>)
        /\ Associative(a, b, c)

(***************************************************************************)
(* C36, amended: as long as one fragment is a non-empty path, undefined    *)
(* and empty-string fragments are ignored, and the equations above hold.   *)
(* When no fragment is a non-empty path the result is undefined if every   *)
(* fragment is undefined and '' if one of them is '', both of which mean   *)
(* no path.  mergePaths is associative, and a string fragment and a tuple  *)
(* fragment with the same segments give the same result.                   *)
(***************************************************************************)
C36_MergeIgnoresAbsent ==
  (op.name = "mergePaths") =>
    LET a == op.arg[1]
        b == op.arg[2]
        c == op.arg[3]
    IN  /\ (~Falsy(a) \/ ~Falsy(b)) =>
             /\ mergePaths(<<a, NoPath, b>>) = mergePaths(<<a, b>>)
             /\ mergePaths(<<a, Str(<<>>), b>>) = mergePaths(<<a, b>>)
             /\ ~Falsy(mergePaths(<<a, b>>))
        /\ (Falsy(a) /\ Falsy(b)) =>
             /\ mergePaths(<<a, NoPath, b>>) = mergePaths(<<a, b>>)
             /\ mergePaths(<<a, Str(<<>>), b>>) = Str(<<>>)
             /\ mergePaths(<<a, b>>) = IF a = NoPath /\ b = NoPath THEN NoPath ELSE Str(<<>>)
        /\ Associative(a, b, c)

\* 'values', a tuple with a number index and undefined give 'values.a.0'.
C36_Witness ==
  /\ op.name = "mergePaths"
  /\ op.arg = <<Str(<<"values">>), Tup(<<"a", Index0>>), NoPath>>
  /\ op.result = Str(<<"values", ".", "a", ".", "0">>)
  /\ mergePaths(<<Str(<<"values">>), Str(<<>>), Str(<<"a", ".", "0">>)>>) = op.result


(***************************************************************************)
(* C37.  As claimed: when a write into a shadow tree (errors, touched,     *)
(* dirty) has to create a missing intermediate container, the container's  *)
(* kind matches the data at that path: an array where values holds an      *)
(* array at that path, an object otherwise.                                *)
(***************************************************************************)
\* The intermediate containers the last operation created in a shadow tree:
\* the nodes strictly above the path written that were missing before.
CreatedContainers(tree) ==
  LET segs == SegsOf(op.path)
      keys == [i \in 1..Len(segs) |-> toKey(segs[i])]
  IN  {q \in Nodes(Child(state, tree)) :
         /\ q # <<>>
         /\ Len(q) < Len(keys)
         /\ SubSeq(keys, 1, Len(q)) = q
         /\ IsObjectLike(Sub(Child(state, tree), q))
         /\ Sub(Child(prev, tree), q) = Undef}

ShadowTrees == {"errors", "touched", "dirty"}

C37_Original ==
  (op.name \in {"onChange", "onBlur", "scopedSetState"}) =>
    \A tree \in ShadowTrees : \A q \in CreatedContainers(tree) :
      Kind(Sub(Child(state, tree), q)) = "arr" <=> Kind(Sub(Values(state), q)) = "arr"

(***************************************************************************)
(* C37, amended: when a write into a shadow tree (errors, touched, dirty)  *)
(* has to create a missing intermediate container, the container is a      *)
(* plain object, also where values holds an array at that path: the index  *)
(* of an element is then a key of that object.                             *)
(***************************************************************************)
C37_ContainersAreObjects ==
  (op.name \in {"onChange", "onBlur", "scopedSetState"}) =>
    \A tree \in ShadowTrees : \A q \in CreatedContainers(tree) :
      Kind(Sub(Child(state, tree), q)) = "obj"

\* onChange at ['a', 0] on values {a: [0]}: dirty.a is made as an object
\* with the key '0' although values.a is an array.
C37_Witness ==
  /\ op.name = "onChange"
  /\ op.path = Tup(<<"a", Index0>>)
  /\ Kind(Child(Values(state), "a")) = "arr"
  /\ Dirty(prev) = Undef
  /\ <<"a">> \in CreatedContainers("dirty")
  /\ Kind(Child(Dirty(state), "a")) = "obj"
  /\ Truthy(Sub(Dirty(state), <<"a", "0", "_dirty">>))

=============================================================================
